---- MODULE Spec2Model ----
(***************************************************************************)
(* A model of moviego's transcoder-process supervisor (pkg/ffmpeg          *)
(* ProcessManager / ManagedProcess) and of the frame encoders that spawn   *)
(* transcoder processes (VideoWriter, AudioWriter).                        *)
(*                                                                         *)
(* Modelling decisions                                                     *)
(*  - A pid identifies one OS process for the whole run: pids are handed   *)
(*    out in increasing order and never recycled, so syscall.Getpgid of a  *)
(*    reaped pid fails (ESRCH).                                            *)
(*  - mp.done is a Go channel of capacity 1 that is sent to once and never *)
(*    closed: done[p] is the number of buffered values, and every receive  *)
(*    (TerminateProcess, cleanupZombies, IsRunning, Wait) takes the value. *)
(*  - time.After(5s) is a timeout: it fires only while done is empty and   *)
(*    the monitoring goroutine has no immediate step pending.              *)
(***************************************************************************)
EXTENDS Integers, FiniteSets, Sequences, TLC

\* Number of transcoder processes a run may spawn.
MaxProcs == 1

\* Number of Open calls made on one writer.
MaxOpens == 2

\* Largest width and height of a frame and of a writer's declared size.
MaxDim == 2

\* Number of WriteFrame calls of a run.
MaxCalls == 2

Dims == 1..MaxDim

\* The 16-bit red channel of the k-th frame a run hands to WriteFrame.
Red(k) == (4660 * k) % 65536

\* All frames with the k-th red: a w x h image whose pixel (x, y) has the
\* 16-bit colour (Red(k), 257 * x, 257 * y).
Frames(k) == [w : Dims, h : Dims, c : {Red(k)}]

\* The value of the frame variable while no WriteFrame call is writing.
NoFrame == [w |-> 1, h |-> 1, c |-> 0]

Pids == 1..MaxProcs

\* Process ids the operating system can hand out: those of the supervised
\* runs and those of the encoders one writer starts.
AllPids == 1..(IF MaxOpens > MaxProcs THEN MaxOpens ELSE MaxProcs)

\* Longest source file, in seconds.
MaxDur == 2

\* The timestamps handed to GetFrame, Subclip: whole seconds, from before
\* the start to past the end of the longest source.
Times == (0 - 1)..(MaxDur + 1)

\* The factors handed to WithSpeed.
Speeds == {1, 2}

\* Number of effect objects of a run.
MaxFx == 2

\* Longest effect chain.
MaxChain == 3

\* The identities of the effect objects.
FxIds == 1..MaxFx

\* Widths and heights of the original clip and of the effects' parameters.
FxDims == 1..(MaxDim + 1)

\* An effect object not made yet.
NoEffect == [type |-> "none", x |-> 0, y |-> 0, width |-> 0, height |-> 0,
             angle |-> 0]

\* The value of the result variable before the first GetFrame of the
\* effect clip returns.
NoGot == [ok |-> FALSE, size |-> <<0, 0>>, declared |-> <<0, 0>>,
          from |-> <<0, 0>>, effects |-> <<>>, trace |-> <<>>]

\* Most layers of a composite.
MaxLayers == 3

\* No image.
NoImage == [w |-> 0, h |-> 0, px |-> <<>>]

\* History of the clip in hand: the clip Open filled in, a clip made from
\* that clip by one call (with the call's arguments), or any other clip.
Source == [op |-> "source", a |-> 0, b |-> 0, f |-> 1]

Derived == [op |-> "derived", a |-> 0, b |-> 0, f |-> 1]

\* History of the clip in hand: the calls that made it from the source clip,
\* first to last, up to two of them; any longer history is <<Derived>>.
Chained(chain, call) ==
    IF chain # <<Derived>> /\ Len(chain) < 2 THEN Append(chain, call)
    ELSE <<Derived>>

\* Most VideoFileClip objects alive at once.
MaxClips == 2

ClipIds == 1..MaxClips

\* Number of AudioFileClip objects of a run: the one NewAudioFileClip made
\* and the clips made from it.
MaxAudio == 2

AudioIds == 1..MaxAudio

\* time.Second: a time.Duration counts ticks, Second of them to the second.
Second == 1000

\* info.SampleRate, which Open hands to NewBaseAudioClip as the clip's FPS.
SampleRate == 2

\* An AudioFileClip that has not been made.
NoAudioClip == [made |-> FALSE, closed |-> FALSE, reader |-> FALSE,
                from |-> 0, fromOpen |-> FALSE,
                start |-> 0, end |-> 0, dur |-> 0, fps |-> 0]

\* The value of auRet before any call on an AudioFileClip has returned.
NoAuCall == [clip |-> 0, op |-> "none", err |-> "nil", made |-> 0,
             factor |-> 0, before |-> 0, spawned |-> FALSE]

\* The arguments of a call other than Subclip; of Subclip: start, end and
\* the clip's Duration().
NoArgs == <<0, 0, 0>>

\* The value of lcRet before any call on a clip has returned.
NoLcCall == [kind |-> "none", op |-> "none", wasClosed |-> FALSE,
             args |-> NoArgs, err |-> "nil", made |-> FALSE,
             spawned |-> FALSE, changed |-> FALSE]

\* The value of blCall before any call of blendColors has returned.
NoBlend == [base |-> <<0, 0, 0, 0>>, overlay |-> <<0, 0, 0, 0>>,
            mode |-> "none", out |-> <<0, 0, 0, 0>>, wide |-> FALSE]

\* The value of cvGot before any GetFrame of the composite has returned.
NoFetch == [t |-> 0, broken |-> {}, ok |-> FALSE, frame |-> NoImage]

\* The value of the call variable while no read call is in progress.
NoCall == [kind |-> "none", req |-> 0, cdur |-> 0, t |-> 0, need |-> 0,
           out |-> 0, read |-> 0]

\* The value of the result variable before the first read call returns.
NoReturn == [kind |-> "none", req |-> 0, cdur |-> 0, t |-> 0, need |-> 0,
             out |-> 0, read |-> 0, ret |-> "none", spawned |-> FALSE,
             reaped |-> FALSE, exit |-> 0]

\* Goroutines that call TerminateProcess: Close (through KillAllProcesses)
\* and one direct caller.
Callers == {"close", "user"}

VARIABLES
    processes,     \* pm.processes: the pids that are keys of the registry
    pmCancelled,   \* pm.ctx has been cancelled (pm.cancel() ran)
    kind,          \* how pid p was spawned: "none", "managed", "audio", "video"
    os,            \* OS state of p: "unborn", "running", "zombie", "reaped"
    sig,           \* signals delivered to p so far
    hostSig,       \* signals delivered to the host program's own process group
    mon,           \* p's monitoring goroutine: "idle", "wait", "send", "delete",
                   \*   "cleanup", "finished"
    done,          \* number of values buffered in mp.done (0 or 1)
    cleanup,       \* mp.cleanup # nil
    cleanupCalls,  \* how often the cleanup callback ran
    mpCancelled,   \* mp.ctx has been cancelled (mp.cancel() ran)
    tpc,           \* TerminateProcess position of each caller
    tpid,          \* the pid each caller is terminating (0: none)
    tret,          \* how each caller's last TerminateProcess returned: "none",
                   \*   "err" (no such pid), and with nil: "graceful" (done
                   \*   received), "forced" (SIGKILL sent), "expired" (timeout,
                   \*   Getpgid failed)
    cpc,           \* Close position: "idle", "iter", "returned"
    pids,          \* KillAllProcesses: pids of the snapshot still to terminate
    rpc,           \* cleanupRoutine: "idle" (in its select), "scan" (in cleanupZombies)
    rprocs,        \* cleanupZombies: processes of the snapshot still to look at
    vwClosed, vwProcess, vwStdin,   \* VideoWriter fields (process: 0 is nil)
    vwWidth, vwHeight,              \* VideoWriter's declared frame size
    vwpc,          \* the call holding vw.mutex: "idle", "writing", "closing"
    vwFrame,       \* the frame of the WriteFrame call in progress
    vwBy,          \* who made the call in progress: 0 a direct caller, else
                   \*   the id of the WriteFrames call
    vwBatch,       \* the WriteFrames call: its id (0: none so far) and the
                   \*   number of frames it still has to write (0: returned)
    vwLog,         \* history: the frame, the result and the caller of each
                   \*   WriteFrame call
    pipe,          \* the bytes written to the stdin pipe of each process
    awClosed, awProcess, awStdin,   \* AudioWriter fields
    vrInfo,        \* VideoReader.info: <<>> is nil, else <<info>>
    arInfo,        \* AudioReader.info: <<>> is nil (no audio), else <<info>>
    clip,          \* the VideoFileClip in hand: start, end, duration, speedFactor,
                   \*   and (history) how it was made
    gpc,           \* the GetFrame / GetAudioFrame call: "idle", "read", "wait"
    gcall,         \* the call in progress
    rdRet,         \* history: the last GetFrame / GetAudioFrame call to return
    wf,            \* the WriteToFile call: position, stream, frame index, result
    fx,            \* the effect objects made so far, by identity
    evcEffects,    \* EffectVideoClip.effects: the chain, a sequence of identities
    evcOrig,       \* the original clip's <<Width(), Height()>>; <<0, 0>> before
                   \* NewEffectVideoClip
    evcSize,       \* EffectVideoClip's own <<Width(), Height()>>
    evcCleared,    \* history: ClearEffects has been called
    evcGot,        \* history: the last EffectVideoClip.GetFrame to return
                   \* since the chain last changed
    ecEffects,     \* EffectChain.effects: a sequence of identities
    ecGot,         \* history: the last EffectChain.ApplyToFrame to return
                   \* since the chain last changed
    cvClips,       \* CompositeVideoClip.clips: the layers; <<>> before
                   \* NewCompositeVideoClip
    cvPositions,   \* CompositeVideoClip.positions
    cvMode,        \* CompositeVideoClip.mode
    cvSize,        \* CompositeVideoClip's own Duration(), Width(), Height()
    cvGot,         \* history: the last CompositeVideoClip.GetFrame to return
    vfc,           \* the VideoFileClip objects: 1 is the one NewVideoFileClip
                   \*   made, the others are made from clips; closed, reader
                   \*   (not nil), audio (not nil), start, duration, speedFactor
    afc,           \* the AudioFileClip the VideoFileClips hold: closed, reader
                   \*   (not nil)
    arClosed,      \* AudioReader.closed of that clip's reader
    lcDur,         \* the duration of the file (info.Duration), 0 before Open
    evc,           \* an EffectVideoClip over clip 1: closed, Duration()
    cvc,           \* a CompositeVideoClip of clip 1: closed, Duration()
    lcRet,         \* history: the last call on a clip to return
    blCall,        \* history: the last call of blendColors to return
    audioClips,    \* the AudioFileClip objects of a run: closed, reader set
                   \*   (not nil), Start(), End(), Duration(), FPS()
    auRet          \* history: the last call on an AudioFileClip to return

pmVars == <<processes, pmCancelled>>
osVars == <<kind, os, sig, hostSig>>
mpVars == <<mon, done, cleanup, cleanupCalls, mpCancelled>>
procVars == <<osVars, mpVars>>
termVars == <<tpc, tpid, tret>>
closeVars == <<cpc, pids>>
reaperVars == <<rpc, rprocs>>
vwVars == <<vwClosed, vwProcess, vwStdin, vwWidth, vwHeight, vwpc, vwFrame,
            vwBy, vwBatch, vwLog, pipe>>
awVars == <<awClosed, awProcess, awStdin>>

rdVars == <<vrInfo, arInfo, clip, gpc, gcall, rdRet>>
wfVars == <<wf>>
fxVars == <<fx, evcEffects, evcOrig, evcSize, evcCleared, evcGot>>
ecVars == <<ecEffects, ecGot>>
cvVars == <<cvClips, cvPositions, cvMode, cvSize, cvGot>>
lcVars == <<vfc, afc, arClosed, lcDur, evc, cvc, lcRet>>
blVars == <<blCall>>
auVars == <<audioClips, auRet>>
clipVars == <<rdVars, wfVars, fxVars, ecVars, cvVars, lcVars, blVars, auVars>>

vars == <<pmVars, procVars, termVars, closeVars, reaperVars, vwVars, awVars,
          clipVars>>

\* NewProcessManager, NewVideoWriter, NewAudioWriter: an empty registry, the
\* reaper goroutine started, both writers constructed and not yet opened.
InitFields ==
    /\ processes = {}
    /\ pmCancelled = FALSE
    /\ kind = [p \in AllPids |-> "none"]
    /\ os = [p \in AllPids |-> "unborn"]
    /\ sig = [p \in AllPids |-> {}]
    /\ hostSig = {}
    /\ mon = [p \in AllPids |-> "idle"]
    /\ done = [p \in AllPids |-> 0]
    /\ cleanup = [p \in AllPids |-> FALSE]
    /\ cleanupCalls = [p \in AllPids |-> 0]
    /\ mpCancelled = [p \in AllPids |-> FALSE]
    /\ tpc = [t \in Callers |-> "idle"]
    /\ tpid = [t \in Callers |-> 0]
    /\ tret = [t \in Callers |-> "none"]
    /\ cpc = "idle"
    /\ pids = {}
    /\ rpc = "idle"
    /\ rprocs = {}
    /\ vwClosed = FALSE /\ vwProcess = 0 /\ vwStdin = "nil"
    /\ vwpc = "idle"
    /\ vwFrame = NoFrame
    /\ vwBy = 0
    /\ vwBatch = [id |-> 0, left |-> 0]
    /\ vwLog = <<>>
    /\ pipe = [p \in AllPids |-> <<>>]
    /\ awClosed = FALSE /\ awProcess = 0 /\ awStdin = "nil"
    /\ vrInfo = <<>>
    /\ arInfo = <<>>
    /\ clip = [start |-> 0, end |-> 0, dur |-> 0, speed |-> 1, via |-> Source,
               chain |-> <<>>]
    /\ gpc = "idle"
    /\ gcall = NoCall
    /\ rdRet = NoReturn
    /\ wf = [pc |-> "idle", stream |-> "none", i |-> 0, totalFrames |-> 0,
             ret |-> "none"]
    /\ fx = [e \in FxIds |-> NoEffect]
    /\ evcEffects = <<>>
    /\ evcOrig = <<0, 0>>
    /\ evcSize = <<0, 0>>
    /\ evcCleared = FALSE
    /\ evcGot = NoGot
    /\ ecEffects = <<>>
    /\ ecGot = NoGot
    /\ cvClips = <<>>
    /\ cvPositions = <<>>
    /\ cvMode = "Overlay"
    /\ cvSize = [dur |-> 0, w |-> 0, h |-> 0]
    /\ cvGot = NoFetch
    /\ vfc = [i \in ClipIds |->
                [made |-> i = 1, closed |-> FALSE, reader |-> FALSE,
                 audio |-> FALSE, start |-> 0, dur |-> 0, speed |-> 1]]
    /\ afc = [made |-> FALSE, closed |-> FALSE, reader |-> FALSE]
    /\ arClosed = FALSE
    /\ lcDur = 0
    /\ evc = [made |-> FALSE, closed |-> FALSE, dur |-> 0]
    /\ cvc = [made |-> FALSE, closed |-> FALSE, dur |-> 0]
    /\ lcRet = NoLcCall
    /\ blCall = NoBlend
    /\ audioClips = [i \in AudioIds |->
                        IF i = 1 THEN [NoAudioClip EXCEPT !.made = TRUE]
                        ELSE NoAudioClip]
    /\ auRet = NoAuCall

\* The supervisor's runs: the VideoWriter was declared 1 x 1.
Init == InitFields /\ vwWidth = 1 /\ vwHeight = 1

\* The encoder's runs: NewVideoWriter(filename, width, height, ...) with the
\* largest width and any height (frames are narrower, shorter or taller).
InitWriter == InitFields /\ vwWidth = MaxDim /\ vwHeight \in Dims

----------------------------------------------------------------------------
\* The operating system.

\* The next pid the OS hands out.
Fresh(p) == kind[p] = "none" /\ \A q \in Pids : q < p => kind[q] # "none"

\* A Getpgid that still answers for a pid whose process has been reaped.
GetpgidOfReaped(p) == os[p] # "unborn"

\* syscall.Getpgid(pid) succeeds while the process exists (running or zombie).
Getpgid(p) == os[p] \in {"running", "zombie"}

\* Whether p leads a process group of its own (SysProcAttr.Setpgid): only
\* StartProcess sets it, the writers' children stay in the host's group.
OwnGroup(p) == kind[p] = "managed"

\* A running transcoder exits: on its own, on a SIGTERM it honours, or killed.
ProcExit(p) ==
    /\ os[p] = "running"
    /\ os' = [os EXCEPT ![p] = "zombie"]
    /\ UNCHANGED <<pmVars, kind, sig, hostSig, mpVars, termVars, closeVars,
                   reaperVars, vwVars, awVars, clipVars>>

----------------------------------------------------------------------------
\* ProcessManager.StartProcess and its monitoring goroutine.

\* StartProcess up to a successful cmd.Start(): a running process that is
\* not registered yet. pm.ctx is not consulted. (A failed cmd.Start() returns
\* an error and changes nothing.)
StartProcessSpawn(p) ==
    /\ Fresh(p)
    /\ kind' = [kind EXCEPT ![p] = "managed"]
    /\ os' = [os EXCEPT ![p] = "running"]
    /\ UNCHANGED <<pmVars, sig, hostSig, mpVars, termVars, closeVars,
                   reaperVars, vwVars, awVars, clipVars>>

\* StartProcess from the registration on: the entry is added under the
\* lock, the monitoring goroutine is launched and mp is returned.
StartProcessRegister(p) ==
    /\ kind[p] = "managed"
    /\ mon[p] = "idle"
    /\ processes' = processes \cup {p}
    /\ mon' = [mon EXCEPT ![p] = "wait"]
    /\ UNCHANGED <<pmCancelled, osVars, done, cleanup, cleanupCalls, termVars,
                   closeVars, reaperVars, vwVars, awVars, clipVars,
                   mpCancelled>>

\* The goroutine's cmd.Wait() returns once the process has exited: the
\* process is reaped.
MonitorWait(p) ==
    /\ mon[p] = "wait"
    /\ os[p] = "zombie"
    /\ os' = [os EXCEPT ![p] = "reaped"]
    /\ mon' = [mon EXCEPT ![p] = "send"]
    /\ UNCHANGED <<pmVars, kind, sig, hostSig, done, cleanup, cleanupCalls,
                   termVars, closeVars, reaperVars, vwVars, awVars,
                   clipVars, mpCancelled>>

\* What the goroutine does after the send: VideoWriter's goroutine ends,
\* the other two delete the registry entry.
AfterSend(p) == IF kind[p] = "video" THEN "finished" ELSE "delete"

\* mp.done <- err: the one send on the channel (capacity 1, never blocks).
MonitorSend(p) ==
    /\ mon[p] = "send"
    /\ done' = [done EXCEPT ![p] = 1]
    /\ mon' = [mon EXCEPT ![p] = AfterSend(p)]
    /\ UNCHANGED <<pmVars, osVars, cleanup, cleanupCalls, termVars, closeVars,
                   reaperVars, vwVars, awVars, clipVars, mpCancelled>>

\* What the goroutine does after the delete: only StartProcess's goroutine
\* goes on to the cleanup callback.
AfterDelete(p) == IF kind[p] = "managed" THEN "cleanup" ELSE "finished"

\* delete(pm.processes, mp.pid) under the lock.
MonitorDelete(p) ==
    /\ mon[p] = "delete"
    /\ processes' = processes \ {p}
    /\ mon' = [mon EXCEPT ![p] = AfterDelete(p)]
    /\ UNCHANGED <<pmCancelled, osVars, done, cleanup, cleanupCalls, termVars,
                   closeVars, reaperVars, vwVars, awVars, clipVars,
                   mpCancelled>>

\* if mp.cleanup != nil { mp.cleanup() }: the field is read once, here.
MonitorCleanup(p) ==
    /\ mon[p] = "cleanup"
    /\ cleanupCalls' = [cleanupCalls EXCEPT ![p] = IF cleanup[p] THEN @ + 1 ELSE @]
    /\ mon' = [mon EXCEPT ![p] = "finished"]
    /\ UNCHANGED <<pmVars, osVars, done, cleanup, termVars, closeVars,
                   reaperVars, vwVars, awVars, clipVars, mpCancelled>>

\* ManagedProcess.SetCleanup: callable once StartProcess has returned mp.
SetCleanup(p) ==
    /\ kind[p] = "managed"
    /\ mon[p] # "idle"
    /\ ~cleanup[p]
    /\ cleanup' = [cleanup EXCEPT ![p] = TRUE]
    /\ UNCHANGED <<pmVars, osVars, mon, done, cleanupCalls, termVars,
                   closeVars, reaperVars, vwVars, awVars, clipVars,
                   mpCancelled>>

\* A receive from mp.done: takes the buffered value out of the channel.
Receive(p) ==
    /\ done[p] = 1
    /\ done' = [done EXCEPT ![p] = 0]

\* ManagedProcess.IsRunning: a non-blocking receive; false when it got the
\* value (the step modelled), true otherwise (no change of state).
IsRunning(p) ==
    /\ kind[p] = "managed"
    /\ mon[p] # "idle"
    /\ Receive(p)
    /\ UNCHANGED <<pmVars, osVars, mon, cleanup, cleanupCalls, termVars,
                   closeVars, reaperVars, vwVars, awVars, clipVars,
                   mpCancelled>>

\* ManagedProcess.Wait: a blocking receive, returns when it got the value.
Wait(p) ==
    /\ kind[p] = "managed"
    /\ mon[p] # "idle"
    /\ Receive(p)
    /\ UNCHANGED <<pmVars, osVars, mon, cleanup, cleanupCalls, termVars,
                   closeVars, reaperVars, vwVars, awVars, clipVars,
                   mpCancelled>>

\* What mp.cancel() delivers to the process. StartProcess builds the command
\* on the caller's ctx and hands out the cancel of a derived context that
\* nothing listens to; the writers hand out the cancel of the very context
\* their command runs under, so exec kills the child (os.Process.Kill).
CancelSignals(p) ==
    IF kind[p] # "managed" /\ os[p] = "running" THEN {"CTXKILL"} ELSE {}

\* ManagedProcess.Terminate on the mp StartProcess returned: mp.cancel() and
\* nothing else.
Terminate(p) ==
    /\ kind[p] = "managed"
    /\ mon[p] # "idle"
    /\ ~mpCancelled[p]
    /\ mpCancelled' = [mpCancelled EXCEPT ![p] = TRUE]
    /\ sig' = [sig EXCEPT ![p] = @ \cup CancelSignals(p)]
    /\ UNCHANGED <<pmVars, kind, os, hostSig, mon, done, cleanup, cleanupCalls,
                   termVars, closeVars, reaperVars, vwVars, awVars, clipVars>>

----------------------------------------------------------------------------
\* ProcessManager.TerminateProcess.

\* The lookup under the read lock: an error when pid is not a key.
Lookup(t, p) ==
    IF p \in processes
    THEN /\ tpc' = [tpc EXCEPT ![t] = "signal"]
         /\ tpid' = [tpid EXCEPT ![t] = p]
         /\ tret' = [tret EXCEPT ![t] = "none"]
    ELSE /\ tret' = [tret EXCEPT ![t] = "err"]
         /\ UNCHANGED <<tpc, tpid>>

\* A direct call TerminateProcess(pid), up to the lookup.
TerminateLookup(p) ==
    /\ tpc["user"] = "idle"
    /\ Lookup("user", p)
    /\ UNCHANGED <<pmVars, procVars, closeVars, reaperVars, vwVars, awVars,
                   clipVars>>

\* mp.cancel(), then SIGTERM to the process group if Getpgid succeeds.
TerminateSignal(t) ==
    LET p == tpid[t]
        term == IF Getpgid(p) THEN {"TERM"} ELSE {}
    IN  /\ tpc[t] = "signal"
        /\ mpCancelled' = [mpCancelled EXCEPT ![p] = TRUE]
        /\ sig' = [sig EXCEPT ![p] = @ \cup CancelSignals(p) \cup term]
        /\ hostSig' = IF OwnGroup(p) THEN hostSig ELSE hostSig \cup term
        /\ tpc' = [tpc EXCEPT ![t] = "select"]
        /\ UNCHANGED <<pmVars, kind, os, mon, done, cleanup, cleanupCalls,
                       tpid, tret, closeVars,
                       reaperVars, vwVars, awVars, clipVars>>

\* case <-mp.done: return nil.
TerminateDone(t) ==
    /\ tpc[t] = "select"
    /\ Receive(tpid[t])
    /\ tpc' = [tpc EXCEPT ![t] = "idle"]
    /\ tret' = [tret EXCEPT ![t] = "graceful"]
    /\ tpid' = [tpid EXCEPT ![t] = 0]
    /\ UNCHANGED <<pmVars, osVars, mon, cleanup, cleanupCalls, closeVars,
                   reaperVars, vwVars, awVars, clipVars, mpCancelled>>

\* The monitoring goroutine is about to run: the process has exited and
\* cmd.Wait() is returning, or the send is next.
MonitorBusy(p) == (mon[p] = "wait" /\ os[p] = "zombie") \/ mon[p] = "send"

\* The grace period ran out with nothing to receive.
GraceExpired(p) == done[p] = 0 /\ ~MonitorBusy(p)

\* The timeout branch without its SIGKILL.
TerminateTimeoutNoKill(t) ==
    /\ tpc[t] = "select"
    /\ GraceExpired(tpid[t])
    /\ tpc' = [tpc EXCEPT ![t] = "idle"]
    /\ tret' = [tret EXCEPT ![t] = "expired"]
    /\ tpid' = [tpid EXCEPT ![t] = 0]
    /\ UNCHANGED <<pmVars, procVars, closeVars, reaperVars, vwVars, awVars,
                   clipVars>>

\* case <-time.After(5 * time.Second): SIGKILL to the process group if
\* Getpgid succeeds; return nil either way.
TerminateTimeout(t) ==
    LET p == tpid[t]
        kill == IF Getpgid(p) THEN {"KILL"} ELSE {}
    IN  /\ tpc[t] = "select"
        /\ GraceExpired(p)
        /\ sig' = [sig EXCEPT ![p] = @ \cup kill]
        /\ hostSig' = IF OwnGroup(p) THEN hostSig ELSE hostSig \cup kill
        /\ tpc' = [tpc EXCEPT ![t] = "idle"]
        /\ tret' = [tret EXCEPT ![t] = IF Getpgid(p) THEN "forced" ELSE "expired"]
        /\ tpid' = [tpid EXCEPT ![t] = 0]
        /\ UNCHANGED <<pmVars, kind, os, mpVars, closeVars, reaperVars,
                       vwVars, awVars, clipVars>>

\* TerminateProcess with its system calls taken one at a time.  A signal sent
\* to a process group reaches the process while it exists; sent to the group
\* of a reaped process it reaches nothing (pids are not recycled).
Delivered(p, signal) == IF Getpgid(p) THEN {signal} ELSE {}

\* mp.cancel() and pgid, err := syscall.Getpgid(pid).
TerminateGetpgid(t) ==
    LET p == tpid[t]
    IN  /\ tpc[t] = "signal"
        /\ mpCancelled' = [mpCancelled EXCEPT ![p] = TRUE]
        /\ sig' = [sig EXCEPT ![p] = @ \cup CancelSignals(p)]
        /\ tpc' = [tpc EXCEPT ![t] = IF Getpgid(p) THEN "kill" ELSE "select"]
        /\ UNCHANGED <<pmVars, kind, os, hostSig, mon, done, cleanup,
                       cleanupCalls, tpid, tret, closeVars,
                       reaperVars, vwVars, awVars, clipVars>>

\* if err == nil { syscall.Kill(-pgid, syscall.SIGTERM) }
TerminateKill(t) ==
    LET p == tpid[t]
    IN  /\ tpc[t] = "kill"
        /\ sig' = [sig EXCEPT ![p] = @ \cup Delivered(p, "TERM")]
        /\ hostSig' = IF OwnGroup(p) THEN hostSig ELSE hostSig \cup {"TERM"}
        /\ tpc' = [tpc EXCEPT ![t] = "select"]
        /\ UNCHANGED <<pmVars, kind, os, mpVars, tpid, tret, closeVars,
                       reaperVars, vwVars, awVars, clipVars>>

\* case <-time.After(5 * time.Second): pgid, err := syscall.Getpgid(pid);
\* return nil when it fails.
TimeoutGetpgid(t) ==
    LET p == tpid[t]
    IN  /\ tpc[t] = "select"
        /\ GraceExpired(p)
        /\ IF Getpgid(p)
           THEN /\ tpc' = [tpc EXCEPT ![t] = "forcekill"]
                /\ UNCHANGED <<tpid, tret>>
           ELSE /\ tpc' = [tpc EXCEPT ![t] = "idle"]
                /\ tret' = [tret EXCEPT ![t] = "expired"]
                /\ tpid' = [tpid EXCEPT ![t] = 0]
        /\ UNCHANGED <<pmVars, procVars, closeVars, reaperVars, vwVars, awVars,
                       clipVars>>

\* if err == nil { syscall.Kill(-pgid, syscall.SIGKILL) }; return nil.
TimeoutKill(t) ==
    LET p == tpid[t]
    IN  /\ tpc[t] = "forcekill"
        /\ sig' = [sig EXCEPT ![p] = @ \cup Delivered(p, "KILL")]
        /\ hostSig' = IF OwnGroup(p) THEN hostSig ELSE hostSig \cup {"KILL"}
        /\ tpc' = [tpc EXCEPT ![t] = "idle"]
        /\ tret' = [tret EXCEPT ![t] = "forced"]
        /\ tpid' = [tpid EXCEPT ![t] = 0]
        /\ UNCHANGED <<pmVars, kind, os, mpVars, closeVars, reaperVars,
                       vwVars, awVars, clipVars>>

----------------------------------------------------------------------------
\* ProcessManager.Close and KillAllProcesses.

\* Close: pm.cancel(), then KillAllProcesses takes its snapshot of the keys
\* under the read lock.
CloseBegin ==
    /\ cpc = "idle"
    /\ pmCancelled' = TRUE
    /\ pids' = processes
    /\ cpc' = "iter"
    /\ UNCHANGED <<processes, procVars, termVars, reaperVars, vwVars, awVars,
                   clipVars>>

\* KillAllProcesses: the next pm.TerminateProcess(pid) of the loop.
KillAllNext(p) ==
    /\ cpc = "iter"
    /\ tpc["close"] = "idle"
    /\ p \in pids
    /\ pids' = pids \ {p}
    /\ Lookup("close", p)
    /\ UNCHANGED <<pmVars, procVars, cpc, reaperVars, vwVars, awVars, clipVars>>

\* The loop is over: KillAllProcesses and Close return.
CloseReturn ==
    /\ cpc = "iter"
    /\ tpc["close"] = "idle"
    /\ pids = {}
    /\ cpc' = "returned"
    /\ UNCHANGED <<pmVars, procVars, termVars, pids, reaperVars, vwVars, awVars,
                   clipVars>>

\* ProcessManager.GetProcessCount.
GetProcessCount == Cardinality(processes)

----------------------------------------------------------------------------
\* cleanupRoutine and cleanupZombies.

\* A tick of the 30 s ticker while pm.ctx is live: cleanupZombies snapshots
\* the registry's processes under the read lock.
ReaperTick ==
    /\ rpc = "idle"
    /\ ~pmCancelled
    /\ processes # {}
    /\ rprocs' = processes
    /\ rpc' = "scan"
    /\ UNCHANGED <<pmVars, procVars, termVars, closeVars, vwVars, awVars,
                   clipVars>>

\* cleanupZombies, one process of the snapshot: select { case err := <-mp.done
\* ...; default: }.
ReaperCheck(p) ==
    /\ rpc = "scan"
    /\ p \in rprocs
    /\ rprocs' = rprocs \ {p}
    /\ rpc' = IF rprocs = {p} THEN "idle" ELSE "scan"
    /\ IF done[p] = 1 THEN Receive(p) ELSE UNCHANGED done
    /\ UNCHANGED <<pmVars, osVars, mon, cleanup, cleanupCalls, termVars,
                   closeVars, vwVars, awVars, clipVars, mpCancelled>>

----------------------------------------------------------------------------
\* The frame encoders' Open.

\* VideoWriter.Open: starts the encoder, wraps it in a ManagedProcess and
\* launches a goroutine that waits and sends on done. The registry is not
\* touched.
VideoWriterOpen(p) ==
    /\ vwpc = "idle"
    /\ ~vwClosed
    /\ Fresh(p)
    /\ kind' = [kind EXCEPT ![p] = "video"]
    /\ os' = [os EXCEPT ![p] = "running"]
    /\ mon' = [mon EXCEPT ![p] = "wait"]
    /\ vwProcess' = p
    /\ vwStdin' = "open"
    /\ UNCHANGED <<pmVars, sig, hostSig, done, cleanup, cleanupCalls,
                   termVars, closeVars, reaperVars, vwClosed, vwWidth,
                   vwHeight, vwpc, vwFrame, vwBy, vwBatch, vwLog, pipe, awVars,
                   clipVars, mpCancelled>>

\* AudioWriter.Open up to cmd.Start() (Open holds aw.mutex throughout).
AudioWriterOpenStart(p) ==
    /\ ~awClosed
    /\ Fresh(p)
    /\ \A q \in Pids : ~(kind[q] = "audio" /\ mon[q] = "idle")
    /\ kind' = [kind EXCEPT ![p] = "audio"]
    /\ os' = [os EXCEPT ![p] = "running"]
    /\ UNCHANGED <<pmVars, sig, hostSig, mpVars, termVars, closeVars,
                   reaperVars, vwVars, awVars, clipVars>>

\* AudioWriter.Open from the registration on: the entry is written into the
\* ProcessManager's map, the goroutine is launched, the fields are set.
AudioWriterOpenRegister(p) ==
    /\ kind[p] = "audio"
    /\ mon[p] = "idle"
    /\ processes' = processes \cup {p}
    /\ mon' = [mon EXCEPT ![p] = "wait"]
    /\ awProcess' = p
    /\ awStdin' = "open"
    /\ UNCHANGED <<pmCancelled, osVars, done, cleanup, cleanupCalls, termVars,
                   closeVars, reaperVars, vwVars, awClosed, clipVars,
                   mpCancelled>>

----------------------------------------------------------------------------
\* VideoWriter.WriteFrame and VideoWriter.Close.

\* frame.At(x, y).RGBA(): the zero colour outside the frame's bounds.
At(f, x, y) ==
    IF x < f.w /\ y < f.h THEN <<f.c, 257 * x, 257 * y>> ELSE <<0, 0, 0>>

\* A conversion that keeps the low byte of the 16-bit channel.
LowByte(v) == v % 256

\* byte(v >> 8)
HighByte(v) == (v \div 256) % 256

\* The rgb24 image WriteFrame builds: vw.height rows of vw.width pixels,
\* three bytes a pixel.
PixelData(f) ==
    [i \in 1..(vwWidth * vwHeight * 3) |->
        LET k == (i - 1) \div 3
        IN  HighByte(At(f, k % vwWidth, k \div vwWidth)[((i - 1) % 3) + 1])]

\* A size check that compares the width alone.
WidthMismatch(f) == f.w # vwWidth

\* bounds.Dx() != vw.width || bounds.Dy() != vw.height
SizeMismatch(f) == f.w # vwWidth \/ f.h # vwHeight

\* The frames the k-th WriteFrame call may be handed: of the declared size,
\* or with a wrong width, or with a wrong height.
WriterFrames(k) == {f \in Frames(k) : f.w = vwWidth \/ f.h = vwHeight}

\* WriteFrame returns r for frame f to caller b; a WriteFrames loop goes on
\* to its next frame after nil and returns at the first error.
Return(f, r, b) ==
    /\ vwLog' = Append(vwLog, [frame |-> f, ret |-> r, by |-> b])
    /\ vwBatch' = IF b = 0 THEN vwBatch
                  ELSE IF r = "ok" THEN [vwBatch EXCEPT !.left = @ - 1]
                  ELSE [vwBatch EXCEPT !.left = 0]

\* WriteFrames(frames) with n frames is called, once in a run (an empty
\* slice returns nil at once and changes nothing).
WriteFrames(n) ==
    /\ vwBatch.id = 0
    /\ n \in 1..(MaxCalls - Len(vwLog))
    /\ vwBatch' = [id |-> vwBatch.id + 1, left |-> n]
    /\ UNCHANGED <<pmVars, procVars, termVars, closeVars, reaperVars, vwClosed,
                   vwProcess, vwStdin, vwWidth, vwHeight, vwpc, vwFrame, vwBy,
                   vwLog, pipe, awVars, clipVars>>

\* The callers of WriteFrame: a direct caller (0) at any time, the
\* WriteFrames loop while it has frames left.
WriteCallers == {0} \cup (IF vwBatch.left > 0 THEN {vwBatch.id} ELSE {})

\* WriteFrame up to the check of the process: the closed, not-opened and
\* size checks, the conversion, and the non-blocking receive from done,
\* which takes the exit result if it is there.
WriteFrameBegin(f, b) ==
    /\ vwpc = "idle"
    /\ Len(vwLog) < MaxCalls
    /\ b \in WriteCallers
    /\ IF vwClosed
       THEN Return(f, "errClosed", b) /\ UNCHANGED <<vwpc, vwFrame, vwBy, done, mpCancelled>>
       ELSE IF vwProcess = 0
       THEN Return(f, "errNotOpen", b) /\ UNCHANGED <<vwpc, vwFrame, vwBy, done, mpCancelled>>
       ELSE IF SizeMismatch(f)
       THEN Return(f, "errSize", b) /\ UNCHANGED <<vwpc, vwFrame, vwBy, done, mpCancelled>>
       ELSE IF done[vwProcess] = 1
       THEN /\ Return(f, "errExited", b)
            /\ Receive(vwProcess)
            /\ UNCHANGED <<vwpc, vwFrame, vwBy>>
       ELSE /\ vwpc' = "writing"
            /\ vwFrame' = f
            /\ vwBy' = b
            /\ UNCHANGED <<vwLog, vwBatch, done, mpCancelled>>
    /\ UNCHANGED <<pmVars, osVars, mon, cleanup, cleanupCalls, termVars,
                   closeVars, reaperVars, vwClosed, vwProcess, vwStdin,
                   vwWidth, vwHeight, pipe, awVars, clipVars, mpCancelled>>

\* vw.stdin.Write(pixelData): the whole image goes down the pipe of a running
\* encoder; a pipe whose reader has exited fails the write, and the second
\* non-blocking receive takes the exit result if it is there: the error
\* carries the exit result ("errWriteExited") or the write error alone.
WriteFrameWrite ==
    /\ vwpc = "writing"
    /\ vwpc' = "idle"
    /\ vwFrame' = NoFrame
    /\ vwBy' = 0
    /\ IF os[vwProcess] = "running"
       THEN /\ pipe' = [pipe EXCEPT ![vwProcess] = @ \o PixelData(vwFrame)]
            /\ Return(vwFrame, "ok", vwBy)
            /\ UNCHANGED done
       ELSE /\ IF done[vwProcess] = 1
               THEN Return(vwFrame, "errWriteExited", vwBy) /\ Receive(vwProcess)
               ELSE Return(vwFrame, "errWrite", vwBy) /\ UNCHANGED done
            /\ UNCHANGED pipe
    /\ UNCHANGED <<pmVars, osVars, mon, cleanup, cleanupCalls, termVars,
                   closeVars, reaperVars, vwClosed, vwProcess, vwStdin,
                   vwWidth, vwHeight, awVars, clipVars, mpCancelled>>

\* vw.cancel(): exec kills every encoder still running under vw.ctx.
VwCancelled ==
    [p \in AllPids |-> IF kind[p] = "video" /\ os[p] = "running"
                    THEN sig[p] \cup {"CTXKILL"} ELSE sig[p]]

\* VideoWriter.Close up to process.Wait(): a closed writer returns nil at
\* once; otherwise closed is set and stdin is closed, and with no process
\* the context is cancelled and Close returns.
VideoWriterClose ==
    /\ vwpc = "idle"
    /\ ~vwClosed
    /\ vwClosed' = TRUE
    /\ vwStdin' = "nil"
    /\ IF vwProcess # 0
       THEN vwpc' = "closing" /\ UNCHANGED sig
       ELSE sig' = VwCancelled /\ UNCHANGED vwpc
    /\ UNCHANGED <<pmVars, kind, os, hostSig, mpVars, termVars, closeVars,
                   reaperVars, vwProcess, vwWidth, vwHeight, vwFrame, vwBy,
                   vwBatch, vwLog, pipe, awVars, clipVars>>

\* VideoWriter.Close from process.Wait() on: the blocking receive from done
\* returns, process is cleared, the context is cancelled.
VideoWriterCloseWait ==
    /\ vwpc = "closing"
    /\ Receive(vwProcess)
    /\ vwProcess' = 0
    /\ vwpc' = "idle"
    /\ sig' = VwCancelled
    /\ UNCHANGED <<pmVars, kind, os, hostSig, mon, cleanup, cleanupCalls,
                   termVars, closeVars, reaperVars, vwClosed, vwStdin, vwWidth,
                   vwHeight, vwFrame, vwBy, vwBatch, vwLog, pipe, awVars,
                   clipVars, mpCancelled>>

----------------------------------------------------------------------------
\* VideoFileClip, VideoReader.GetFrame and AudioReader.GetAudioFrame.

\* VideoFileClip.Open: ffprobe reports a duration of d seconds, a width of w
\* (one row), and no audio stream (ch = 0) or one with ch channels, for which
\* an AudioFileClip is opened on the same file.
VideoFileClipOpen(d, w, ch) ==
    /\ vrInfo = <<>>
    /\ vrInfo' = <<[dur |-> d, width |-> w, height |-> 1]>>
    /\ arInfo' = IF ch = 0 THEN <<>>
                 ELSE <<[dur |-> d, rate |-> 10, channels |-> ch]>>
    /\ clip' = [start |-> 0, end |-> d, dur |-> d, speed |-> 1, via |-> Source,
                chain |-> <<>>]
    /\ UNCHANGED <<pmVars, procVars, termVars, closeVars, reaperVars, vwVars,
                   awVars, wfVars, fxVars, ecVars, gpc, gcall, rdRet,
                   cvVars, lcVars, blVars, auVars>>

\* The caller goes back to the clip Open filled in.
UseSource ==
    /\ vrInfo # <<>>
    /\ clip' = [start |-> 0, end |-> vrInfo[1].dur, dur |-> vrInfo[1].dur,
                speed |-> 1, via |-> Source, chain |-> <<>>]
    /\ clip' # clip
    /\ UNCHANGED <<pmVars, procVars, termVars, closeVars, reaperVars, vwVars,
                   awVars, wfVars, fxVars, ecVars, vrInfo, arInfo, gpc, gcall, rdRet,
                   cvVars, lcVars, blVars, auVars>>

\* VideoFileClip.Subclip(start, end) with valid bounds (invalid bounds return
\* ErrInvalidTimeRange): the new clip shares the reader and inherits the
\* speed factor.
Subclip(start, end) ==
    /\ vrInfo # <<>>
    /\ ~(start < 0 \/ end > clip.dur \/ start >= end)
    /\ clip' = [start |-> start, end |-> end, dur |-> end - start,
                speed |-> clip.speed,
                via |-> IF clip.via = Source
                        THEN [op |-> "Subclip", a |-> start, b |-> end, f |-> 1]
                        ELSE Derived,
                chain |-> Chained(clip.chain, [op |-> "Subclip", a |-> start,
                                               b |-> end, f |-> 1])]
    /\ clip' # clip
    /\ UNCHANGED <<pmVars, procVars, termVars, closeVars, reaperVars, vwVars,
                   awVars, wfVars, fxVars, ecVars, vrInfo, arInfo, gpc, gcall, rdRet,
                   cvVars, lcVars, blVars, auVars>>

\* VideoFileClip.WithSpeed(factor), factor > 0, for durations the factor
\* divides into whole seconds.
WithSpeed(factor) ==
    /\ vrInfo # <<>>
    /\ clip.dur % factor = 0
    /\ clip' = [start |-> clip.start, end |-> clip.start + clip.dur \div factor,
                dur |-> clip.dur \div factor, speed |-> factor,
                via |-> IF clip.via = Source
                        THEN [op |-> "WithSpeed", a |-> 0, b |-> 0, f |-> factor]
                        ELSE Derived,
                chain |-> Chained(clip.chain, [op |-> "WithSpeed", a |-> 0,
                                               b |-> 0, f |-> factor])]
    /\ clip' # clip
    /\ UNCHANGED <<pmVars, procVars, termVars, closeVars, reaperVars, vwVars,
                   awVars, wfVars, fxVars, ecVars, vrInfo, arInfo, gpc, gcall, rdRet,
                   cvVars, lcVars, blVars, auVars>>

\* The time asked of the clip, handed on as it is.
RelativeTime(t) == t

\* VideoFileClip.GetFrame: the time handed to the reader.
AbsoluteTime(t) ==
    IF clip.speed # 1 /\ clip.speed # 0
    THEN clip.start + t * clip.speed
    ELSE clip.start + t

\* The number of bytes a call reads: width*height*3 for a frame,
\* int(0.1 * SampleRate * Channels) * 4 for an audio frame.
FrameBytes(stream) ==
    IF stream = "video"
    THEN vrInfo[1].width * vrInfo[1].height * 3
    ELSE ((arInfo[1].rate * arInfo[1].channels) \div 10) * 4

\* A read call returns.
ReadReturn(c, ret, spawned, reaped, exit) ==
    /\ rdRet' = [kind |-> c.kind, req |-> c.req, cdur |-> c.cdur, t |-> c.t,
                 need |-> c.need, out |-> c.out, read |-> c.read,
                 ret |-> ret, spawned |-> spawned, reaped |-> reaped,
                 exit |-> exit]
    /\ gpc' = "idle"
    /\ gcall' = NoCall

\* The reader's part of a call up to cmd.Start(): the only check of the
\* timestamp is timestamp > info.Duration.
ReaderBegin(c) ==
    IF c.t > (IF c.kind = "video" THEN vrInfo[1].dur ELSE arInfo[1].dur)
    THEN ReadReturn(c, "errRange", FALSE, FALSE, 0)
    ELSE gpc' = "read" /\ gcall' = c /\ UNCHANGED rdRet

\* VideoFileClip.GetFrame(t) on the clip in hand, into VideoReader.GetFrame.
VideoGetFrame(t) ==
    /\ gpc = "idle"
    /\ vrInfo # <<>>
    /\ ReaderBegin([kind |-> "video", req |-> t, cdur |-> clip.dur,
                    t |-> AbsoluteTime(t), need |-> FrameBytes("video"),
                    out |-> 0, read |-> 0])
    /\ UNCHANGED <<pmVars, procVars, termVars, closeVars, reaperVars, vwVars,
                   awVars, wfVars, fxVars, ecVars, vrInfo, arInfo, clip,
                   cvVars, lcVars, blVars, auVars>>

\* AudioFileClip.GetAudioFrame(t), into AudioReader.GetAudioFrame(t).
AudioGetFrame(t) ==
    /\ gpc = "idle"
    /\ arInfo # <<>>
    /\ ReaderBegin([kind |-> "audio", req |-> t, cdur |-> arInfo[1].dur,
                    t |-> t, need |-> FrameBytes("audio"), out |-> 0,
                    read |-> 0])
    /\ UNCHANGED <<pmVars, procVars, termVars, closeVars, reaperVars, vwVars,
                   awVars, wfVars, fxVars, ecVars, vrInfo, arInfo, clip,
                   cvVars, lcVars, blVars, auVars>>

\* A read that is content with any bytes at all.
ReadSome(out, need) == out >= 1

\* io.ReadFull succeeds when the stream holds at least the bytes asked for.
ReadFull(out, need) == out >= need

\* The bytes a read leaves in the buffer: the stream's, at most the buffer's.
BytesRead(out, need) == IF out < need THEN out ELSE need

\* The decode process writes out bytes and io.ReadFull(reader, data) returns:
\* on a short stream the process is killed and the call returns without
\* cmd.Wait(); otherwise the call goes on to cmd.Wait().
ReaderRead(out) ==
    /\ gpc = "read"
    /\ out \in {gcall.need - 1, gcall.need, gcall.need + 1}
    /\ LET c == [gcall EXCEPT !.out = out,
                              !.read = BytesRead(out, gcall.need)]
       IN  IF ReadFull(out, gcall.need)
           THEN gpc' = "wait" /\ gcall' = c /\ UNCHANGED rdRet
           ELSE ReadReturn(c, "errRead", TRUE, FALSE, 0)
    /\ UNCHANGED <<pmVars, procVars, termVars, closeVars, reaperVars, vwVars,
                   awVars, wfVars, fxVars, ecVars, vrInfo, arInfo, clip,
                   cvVars, lcVars, blVars, auVars>>

\* cmd.Wait() returns the exit status of the process, which is reaped: an
\* error for a failed exit, the frame built from the bytes otherwise.
ReaderWait(exit) ==
    /\ gpc = "wait"
    /\ ReadReturn(gcall, IF exit # 0 THEN "errExit" ELSE "ok", TRUE, TRUE, exit)
    /\ UNCHANGED <<pmVars, procVars, termVars, closeVars, reaperVars, vwVars,
                   awVars, wfVars, fxVars, ecVars, vrInfo, arInfo, clip,
                   cvVars, lcVars, blVars, auVars>>

----------------------------------------------------------------------------
\* WriteToFile of VideoFileClip and of AudioFileClip, and AudioWriter's
\* WriteSamples and Close. The calls WriteToFile makes on the writer and on
\* the reader are the actions above, taken in the order of its code.

\* WriteToFile up to writer.Open(): the writer is the one made for the clip's
\* size; one frame a second is asked for.
WriteToFile(stream) ==
    /\ wf.pc = "idle"
    /\ IF stream = "video"
       THEN /\ vrInfo # <<>>
            /\ vrInfo[1].width = vwWidth /\ vrInfo[1].height = vwHeight
            /\ clip.dur <= MaxCalls
            /\ ~vwClosed /\ vwProcess = 0
       ELSE /\ arInfo # <<>>
            /\ ~awClosed /\ awProcess = 0
    /\ wf' = [pc |-> "open", stream |-> stream, i |-> 0,
              totalFrames |-> IF stream = "video" THEN clip.dur
                              ELSE arInfo[1].dur,
              ret |-> "none"]
    /\ UNCHANGED <<pmVars, procVars, termVars, closeVars, reaperVars, vwVars,
                   awVars, rdVars, fxVars, ecVars, cvVars, lcVars, blVars, auVars>>

\* The writer WriteToFile made has been opened.
Opened == IF wf.stream = "video" THEN vwProcess # 0 ELSE awProcess # 0

\* for i := 0; i < totalFrames; i++: the next frame is fetched, or the loop
\* is over and WriteToFile returns nil through the deferred writer.Close().
WriteToFileLoop ==
    /\ \/ wf.pc = "open" /\ Opened
       \/ wf.pc = "loop"
    /\ wf' = IF wf.i < wf.totalFrames
             THEN [wf EXCEPT !.pc = "fetch"]
             ELSE [wf EXCEPT !.pc = "close", !.ret = "ok"]
    /\ UNCHANGED <<pmVars, procVars, termVars, closeVars, reaperVars, vwVars,
                   awVars, rdVars, fxVars, ecVars, cvVars, lcVars, blVars, auVars>>

\* GetFrame(t) / GetAudioFrame(t) for frame i has returned.
Fetched == gpc = "idle" /\ rdRet.kind = wf.stream /\ rdRet.req = wf.i

\* frame, err := GetFrame(t); if err != nil { return err }
WriteToFileFetched ==
    /\ wf.pc = "fetch"
    /\ Fetched
    /\ wf' = IF rdRet.ret = "ok"
             THEN [wf EXCEPT !.pc = "write"]
             ELSE [wf EXCEPT !.pc = "close", !.ret = "errFetch"]
    /\ UNCHANGED <<pmVars, procVars, termVars, closeVars, reaperVars, vwVars,
                   awVars, rdVars, fxVars, ecVars, cvVars, lcVars, blVars, auVars>>

\* The frame GetFrame built: of the size of the file's video stream.
FetchedFrames ==
    {f \in Frames(Len(vwLog) + 1) :
        f.w = vrInfo[1].width /\ f.h = vrInfo[1].height}

\* if err := writer.WriteFrame(frame); err != nil { return err }
WriteToFileWritten ==
    /\ wf.pc = "write"
    /\ wf.stream = "video"
    /\ vwpc = "idle"
    /\ Len(vwLog) = wf.i + 1
    /\ wf' = IF vwLog[Len(vwLog)].ret = "ok"
             THEN [wf EXCEPT !.pc = "loop", !.i = @ + 1]
             ELSE [wf EXCEPT !.pc = "close", !.ret = "errWrite"]
    /\ UNCHANGED <<pmVars, procVars, termVars, closeVars, reaperVars, vwVars,
                   awVars, rdVars, fxVars, ecVars, cvVars, lcVars, blVars, auVars>>

\* AudioWriter.WriteSamples called by WriteToFile: the samples go down the
\* pipe of a running encoder; a pipe whose reader has exited fails the write.
WriteSamples ==
    /\ wf.pc = "write"
    /\ wf.stream = "audio"
    /\ ~awClosed
    /\ awProcess # 0
    /\ wf' = IF os[awProcess] = "running"
             THEN [wf EXCEPT !.pc = "loop", !.i = @ + 1]
             ELSE [wf EXCEPT !.pc = "close", !.ret = "errWrite"]
    /\ UNCHANGED <<pmVars, procVars, termVars, closeVars, reaperVars, vwVars,
                   awVars, rdVars, fxVars, ecVars, cvVars, lcVars, blVars, auVars>>

\* aw.cancel(): exec kills every encoder still running under aw.ctx.
AwCancelled ==
    [p \in AllPids |-> IF kind[p] = "audio" /\ os[p] = "running"
                    THEN sig[p] \cup {"CTXKILL"} ELSE sig[p]]

\* AudioWriter.Close: closed is set, stdin is closed, the blocking receive
\* from done in process.Wait() returns, process is cleared, the context is
\* cancelled. The call holds aw.mutex throughout; it is taken as one step at
\* the moment the receive can return.
AudioWriterClose ==
    /\ ~awClosed
    /\ awProcess # 0
    /\ Receive(awProcess)
    /\ awClosed' = TRUE
    /\ awStdin' = "nil"
    /\ awProcess' = 0
    /\ sig' = AwCancelled
    /\ UNCHANGED <<pmVars, kind, os, hostSig, mon, cleanup, cleanupCalls,
                   termVars, closeVars, reaperVars, vwVars, clipVars,
                   mpCancelled>>

\* The deferred writer.Close() has returned.
WriterClosed ==
    IF wf.stream = "video"
    THEN vwClosed /\ vwpc = "idle"
    ELSE awClosed

\* WriteToFile returns once the deferred writer.Close() has.
WriteToFileReturn ==
    /\ wf.pc = "close"
    /\ WriterClosed
    /\ wf' = [wf EXCEPT !.pc = "returned"]
    /\ UNCHANGED <<pmVars, procVars, termVars, closeVars, reaperVars, vwVars,
                   awVars, rdVars, fxVars, ecVars, cvVars, lcVars, blVars, auVars>>

----------------------------------------------------------------------------
\* The effects and EffectVideoClip.

\* A size taken as it is requested.
AsRequested(n) == n

\* if n%2 != 0 { n++ }
EvenUp(n) == IF n % 2 # 0 THEN n + 1 ELSE n

\* Dx(), Dy() of image.Rect(0, 0, n, m): Rect swaps its corners when they are
\* out of order.
Abs(n) == IF n < 0 THEN 0 - n ELSE n

NewResizeEffect(width, height) ==
    [type |-> "resize", x |-> 0, y |-> 0, width |-> EvenUp(width),
     height |-> EvenUp(height), angle |-> 0]

NewRotateEffect(angle) ==
    [type |-> "rotate", x |-> 0, y |-> 0, width |-> 0, height |-> 0,
     angle |-> angle]

NewCropEffect(x, y, width, height) ==
    [type |-> "crop", x |-> x, y |-> y, width |-> width, height |-> height,
     angle |-> 0]

NewBrightnessEffect ==
    [type |-> "brightness", x |-> 0, y |-> 0, width |-> 0, height |-> 0,
     angle |-> 0]

\* The effects callers make.
NewEffects ==
    {NewResizeEffect(w, h) : w \in FxDims, h \in FxDims}
        \cup {NewRotateEffect(a) : a \in {90, 180}}
        \cup {NewCropEffect(x, 0, w, h) : x \in {0, 1}, w \in FxDims, h \in FxDims}
        \cup {NewBrightnessEffect}

\* ResizeEffect.ApplyToFrame: an image of the effect's size.
ResizeApplyToFrame(e, size) ==
    [err |-> FALSE, size |-> <<Abs(e.width), Abs(e.height)>>, effect |-> e]

\* RotateEffect.ApplyToFrame for a quarter or a half turn: an empty input is
\* an error; the bounding box of the turned image, each side made even (the
\* 4096 and 16M-pixel limits are far above the sizes used here).
RotateApplyToFrame(e, size) ==
    IF size[1] <= 0 \/ size[2] <= 0
    THEN [err |-> TRUE, size |-> size, effect |-> e]
    ELSE [err |-> FALSE,
          size |-> IF e.angle = 90
                   THEN <<EvenUp(size[2]), EvenUp(size[1])>>
                   ELSE <<EvenUp(size[1]), EvenUp(size[2])>>,
          effect |-> e]

\* CropEffect.ApplyToFrame: the region is clamped to the image, the clamped
\* values are stored in the effect itself, and the image has the clamped size.
CropApplyToFrame(e, size) ==
    LET x == IF e.x < 0 THEN 0 ELSE e.x
        y == IF e.y < 0 THEN 0 ELSE e.y
        width == IF x + e.width > size[1] THEN size[1] - x ELSE e.width
        height == IF y + e.height > size[2] THEN size[2] - y ELSE e.height
    IN  [err |-> FALSE, size |-> <<Abs(width), Abs(height)>>,
         effect |-> [e EXCEPT !.x = x, !.y = y, !.width = width,
                              !.height = height]]

\* BrightnessEffect.ApplyToFrame: an image of the input's size.
BrightnessApplyToFrame(e, size) ==
    [err |-> FALSE, size |-> <<Abs(size[1]), Abs(size[2])>>, effect |-> e]

\* effect.ApplyToFrame(frame): the error, the size of the image returned and
\* the effect object as the call leaves it.
ApplyToFrame(e, size) ==
    CASE e.type = "resize" -> ResizeApplyToFrame(e, size)
      [] e.type = "rotate" -> RotateApplyToFrame(e, size)
      [] e.type = "crop" -> CropApplyToFrame(e, size)
      [] OTHER -> BrightnessApplyToFrame(e, size)

\* calculateEffectDimensions: the effect is applied to a blank image of the
\* input size; on an error the input size is returned.
calculateEffectDimensions(e, size) ==
    LET r == ApplyToFrame(e, size)
    IN  [size |-> IF r.err THEN size ELSE r.size, effect |-> r.effect]

\* updateFinalDimensions: the loop over the chain, from the original size;
\* the size it ends with and the effect objects as it leaves them.
RECURSIVE updateFinalDimensions(_, _, _)
updateFinalDimensions(effects, f, size) ==
    IF effects = <<>>
    THEN [size |-> size, fx |-> f]
    ELSE LET r == calculateEffectDimensions(f[Head(effects)], size)
         IN  updateFinalDimensions(Tail(effects),
                                   [f EXCEPT ![Head(effects)] = r.effect],
                                   r.size)

\* The loop of EffectVideoClip.GetFrame over the chain: the first error ends
\* the call.
\* A loop that takes the effects from the last one added to the first.
RECURSIVE ApplyEffectsFromLast(_, _, _)
ApplyEffectsFromLast(effects, f, size) ==
    IF effects = <<>>
    THEN [err |-> FALSE, size |-> size, fx |-> f, trace |-> <<>>]
    ELSE LET e == effects[Len(effects)]
             r == ApplyToFrame(f[e], size)
             step == [id |-> e, in |-> size, err |-> r.err, out |-> r.size]
         IN  IF r.err
             THEN [err |-> TRUE, size |-> size, fx |-> f, trace |-> <<step>>]
             ELSE LET rest == ApplyEffectsFromLast(
                                  SubSeq(effects, 1, Len(effects) - 1),
                                  [f EXCEPT ![e] = r.effect], r.size)
                  IN  [rest EXCEPT !.trace = <<step>> \o @]

\* The loop of EffectVideoClip.GetFrame and of EffectChain.ApplyToFrame over
\* the chain: the first error ends the call. The trace lists the calls of
\* effect.ApplyToFrame the loop made: on which effect, with an image of which
\* size, returning an image of which size or an error.
RECURSIVE ApplyEffects(_, _, _)
ApplyEffects(effects, f, size) ==
    IF effects = <<>>
    THEN [err |-> FALSE, size |-> size, fx |-> f, trace |-> <<>>]
    ELSE LET e == Head(effects)
             r == ApplyToFrame(f[e], size)
             step == [id |-> e, in |-> size, err |-> r.err, out |-> r.size]
         IN  IF r.err
             THEN [err |-> TRUE, size |-> size, fx |-> f, trace |-> <<step>>]
             ELSE LET rest == ApplyEffects(Tail(effects),
                                           [f EXCEPT ![e] = r.effect], r.size)
                  IN  [rest EXCEPT !.trace = <<step>> \o @]

\* NewEffectVideoClip(original, pm) on an original clip of the given size.
NewEffectVideoClip(width, height) ==
    /\ evcOrig = <<0, 0>>
    /\ ecEffects = <<>> /\ ecGot = NoGot
    /\ evcOrig' = <<width, height>>
    /\ evcSize' = <<width, height>>
    /\ UNCHANGED <<pmVars, procVars, termVars, closeVars, reaperVars, vwVars,
                   awVars, rdVars, wfVars, ecVars, fx, evcEffects, evcCleared, evcGot,
                   cvVars, lcVars, blVars, auVars>>

\* The caller makes an effect object, the next of the run.
NewEffect(e, effect) ==
    /\ fx[e] = NoEffect
    /\ \A d \in FxIds : d < e => fx[d] # NoEffect
    /\ fx' = [fx EXCEPT ![e] = effect]
    /\ UNCHANGED <<pmVars, procVars, termVars, closeVars, reaperVars, vwVars,
                   awVars, rdVars, wfVars, ecVars, evcEffects, evcOrig, evcSize,
                   evcCleared, evcGot, cvVars, lcVars, blVars, auVars>>

\* EffectVideoClip.AddEffect(effect): append, then updateFinalDimensions.
AddEffect(e) ==
    /\ evcOrig # <<0, 0>>
    /\ fx[e] # NoEffect
    /\ Len(evcEffects) < MaxChain
    /\ evcEffects' = Append(evcEffects, e)
    /\ LET r == updateFinalDimensions(evcEffects', fx, evcOrig)
       IN  fx' = r.fx /\ evcSize' = r.size
    /\ evcGot' = NoGot
    /\ UNCHANGED <<pmVars, procVars, termVars, closeVars, reaperVars, vwVars,
                   awVars, rdVars, wfVars, ecVars, evcOrig, evcCleared,
                   cvVars, lcVars, blVars, auVars>>

\* EffectVideoClip.ClearEffects(): the chain is replaced by an empty one.
ClearEffects ==
    /\ evcOrig # <<0, 0>>
    /\ evcEffects # <<>>
    /\ evcEffects' = <<>>
    /\ evcCleared' = TRUE
    /\ evcGot' = NoGot
    /\ UNCHANGED <<pmVars, procVars, termVars, closeVars, reaperVars, vwVars,
                   awVars, rdVars, wfVars, ecVars, fx, evcOrig, evcSize,
                   cvVars, lcVars, blVars, auVars>>

\* EffectVideoClip.GetFrame(t) where the original clip returns its frame.
EffectGetFrame ==
    /\ evcOrig # <<0, 0>>
    /\ LET r == ApplyEffects(evcEffects, fx, evcOrig)
       IN  /\ fx' = r.fx
           /\ evcGot' = [ok |-> ~r.err,
                         size |-> IF r.err THEN <<0, 0>> ELSE r.size,
                         declared |-> evcSize, from |-> evcOrig,
                         effects |-> evcEffects, trace |-> r.trace]
    /\ UNCHANGED <<pmVars, procVars, termVars, closeVars, reaperVars, vwVars,
                   awVars, rdVars, wfVars, ecVars, evcEffects, evcOrig, evcSize,
                   evcCleared, cvVars, lcVars, blVars, auVars>>

\* EffectChain.AddEffect(effect): append. A run works with an effect chain
\* or with an effect clip.
ChainAddEffect(e) ==
    /\ evcOrig = <<0, 0>>
    /\ fx[e] # NoEffect
    /\ Len(ecEffects) < MaxChain
    /\ ecEffects' = Append(ecEffects, e)
    /\ ecGot' = NoGot
    /\ UNCHANGED <<pmVars, procVars, termVars, closeVars, reaperVars, vwVars,
                   awVars, rdVars, wfVars, fxVars, cvVars, lcVars, blVars, auVars>>

\* EffectChain.ApplyToFrame(frame) on a frame of the given size.
ChainApplyToFrame(width, height) ==
    /\ evcOrig = <<0, 0>>
    /\ LET r == ApplyEffects(ecEffects, fx, <<width, height>>)
       IN  /\ fx' = r.fx
           /\ ecGot' = [ok |-> ~r.err,
                        size |-> IF r.err THEN <<0, 0>> ELSE r.size,
                        declared |-> <<0, 0>>, from |-> <<width, height>>,
                        effects |-> ecEffects, trace |-> r.trace]
    /\ UNCHANGED <<pmVars, procVars, termVars, closeVars, reaperVars, vwVars,
                   awVars, rdVars, wfVars, evcEffects, evcOrig, evcSize,
                   evcCleared, evcGot, ecEffects, cvVars, lcVars, blVars, auVars>>

----------------------------------------------------------------------------
\* CompositeVideoClip.

\* The pixels of an image of the given size.
Pixels(w, h) == (0..(w - 1)) \X (0..(h - 1))

\* The frame layer k returns: an *image.RGBA of the layer's size, 8 bits a
\* channel, every pixel its own colour, opaque.
LayerFrame(k) ==
    [w |-> cvClips[k].w, h |-> cvClips[k].h,
     px |-> [p \in Pixels(cvClips[k].w, cvClips[k].h) |->
                <<40 * k, 10 * p[1] + 1, 10 * p[2] + 2, 255>>]]

\* clip.GetFrame(t) of a layer, an opened video file: an error past the end
\* of the file or when the decode fails.
LayerFails(k, t, broken) == t > cvClips[k].dur \/ k \in broken

\* color.RGBA.RGBA(): each 8-bit channel widened to 16 bits.
RGBA16(c) == [i \in 1..4 |-> c[i] * 257]

\* frame.At(x, y).RGBA() of an *image.RGBA: the zero colour outside the
\* bounds.
ImageAt(img, x, y) ==
    IF <<x, y>> \in Pixels(img.w, img.h) THEN RGBA16(img.px[<<x, y>>])
    ELSE <<0, 0, 0, 0>>

\* (*image.RGBA).Set: the colour is stored 8 bits a channel.
Stored(c16) == [i \in 1..4 |-> (c16[i] \div 256) % 256]

\* A canvas of the frame's bounds that is left as image.NewRGBA made it.
BlankCanvas(frame) ==
    [w |-> frame.w, h |-> frame.h,
     px |-> [p \in Pixels(frame.w, frame.h) |-> <<0, 0, 0, 0>>]]

\* composite := image.NewRGBA(baseFrame.Bounds()) and the loop that sets
\* every pixel to baseFrame.At(x, y).
BaseCopy(frame) ==
    [w |-> frame.w, h |-> frame.h,
     px |-> [p \in Pixels(frame.w, frame.h) |->
                Stored(ImageAt(frame, p[1], p[2]))]]

\* applyTransform: nearest-neighbour scaling by position.Scale.
applyTransform(frame, position) ==
    LET targetWidth == frame.w * position.Scale
        targetHeight == frame.h * position.Scale
    IN  [w |-> targetWidth, h |-> targetHeight,
         px |-> [p \in Pixels(targetWidth, targetHeight) |->
                    LET sx == (p[1] * frame.w) \div targetWidth
                        sy == (p[2] * frame.h) \div targetHeight
                        srcX == IF sx >= frame.w THEN frame.w - 1 ELSE sx
                        srcY == IF sy >= frame.h THEN frame.h - 1 ELSE sy
                    IN  Stored(ImageAt(frame, srcX, srcY))]]

\* Go's integer division by a positive number: towards zero.
Quot(a, b) == IF a >= 0 THEN a \div b ELSE 0 - ((0 - a) \div b)

\* calculateOffset
calculateOffset(base, overlay, position) ==
    IF position.Center
    THEN <<Quot(base.w - overlay.w, 2), Quot(base.h - overlay.h, 2)>>
    ELSE <<position.X, position.Y>>

\* The product a * b does not fit a uint32, for a below 2^17 and b below
\* 2^16: the product is ((a / 256) * b) * 256 + (a % 256) * b.
Overflows32(a, b) ==
    ((a \div 256) * b + ((a % 256) * b) \div 256) \div 256 >= 65536

\* (a * b) / 65535 in uint32 arithmetic, for a below 2^17 and b below 2^16:
\* the product wraps at 2^32.  It is held as hi * 65536 + lo, which is
\* hi * 65535 + (hi + lo).
MulDiv(a, b) ==
    LET u == (a \div 256) * b
        v == (a % 256) * b
        top == u + v \div 256
        hi == (top \div 256) % 65536
        lo == (top % 256) * 256 + (v % 256)
    IN  hi + (hi + lo) \div 65535

blendOverlay(base, overlay) ==
    IF base < 32768
    THEN MulDiv(2 * base, overlay)
    ELSE 65535 - MulDiv(2 * (65535 - base), 65535 - overlay)

blendScreen(base, overlay) == 65535 - MulDiv(65535 - base, 65535 - overlay)

\* A sum that is passed on as it is.
Unclamped(value) == value

clamp(value) == IF value > 65535 THEN 65535 ELSE value

\* blendColors on one channel.
blendChannel(base, overlay, mode) ==
    CASE mode = "Overlay" -> blendOverlay(base, overlay)
      [] mode = "Add" -> clamp(base + overlay)
      [] mode = "Multiply" -> MulDiv(base, overlay)
      [] mode = "Screen" -> blendScreen(base, overlay)
      [] mode = "Darken" -> IF base < overlay THEN base ELSE overlay
      [] OTHER -> IF base > overlay THEN base ELSE overlay

\* blendColors: the three channels blended, the alpha of the overlay.
blendColors(base, overlay, mode) ==
    <<blendChannel(base[1], overlay[1], mode) % 65536,
      blendChannel(base[2], overlay[2], mode) % 65536,
      blendChannel(base[3], overlay[3], mode) % 65536,
      overlay[4]>>

\* The products blendColors forms for one channel: one of them does not fit
\* a uint32.
blendWide(base, overlay, mode) ==
    CASE mode = "Overlay" ->
            IF base < 32768 THEN Overflows32(2 * base, overlay)
            ELSE Overflows32(2 * (65535 - base), 65535 - overlay)
      [] mode = "Multiply" -> Overflows32(base, overlay)
      [] mode = "Screen" -> Overflows32(65535 - base, 65535 - overlay)
      [] OTHER -> FALSE

\* Channel values: the ends of the scale, the values around half scale and
\* the smallest and largest steps of an 8-bit channel.
Channels == {0, 1, 257, 32766, 32767, 32768, 32769, 65278, 65534, 65535}

\* Colours as Color.RGBA() returns them.
Colours == {<<c, 65535 - c, c, a>> : c \in Channels, a \in {0, 32768, 65535}}

\* blendColors(base, overlay, mode) returns.
BlendColors(base, overlay, mode) ==
    /\ blCall' = [base |-> base, overlay |-> overlay, mode |-> mode,
                  out |-> blendColors(base, overlay, mode),
                  wide |-> \E i \in 1..3 : blendWide(base[i], overlay[i], mode)]
    /\ UNCHANGED <<pmVars, procVars, termVars, closeVars, reaperVars, vwVars,
                   awVars, rdVars, wfVars, fxVars, ecVars, cvVars, lcVars,
                   auVars>>

\* A loop that takes every target pixel, inside the base or not.
Unclipped(base, targetX, targetY) == TRUE

\* The negation of the test before `continue`: the target pixel lies within
\* baseBounds.
InBounds(base, targetX, targetY) ==
    targetX >= 0 /\ targetX < base.w /\ targetY >= 0 /\ targetY < base.h

\* compositeFrame: every pixel of the overlay whose target lies inside the
\* base is blended with the pixel under it and set.
compositeFrame(base, overlay, position, mode) ==
    LET offset == calculateOffset(base, overlay, position)
        written == {q \in {<<offset[1] + p[1], offset[2] + p[2]>> :
                               p \in Pixels(overlay.w, overlay.h)} :
                       InBounds(base, q[1], q[2])}
    IN  [base EXCEPT !.px =
            [q \in (DOMAIN base.px) \cup written |->
                IF q \in written
                THEN Stored(blendColors(ImageAt(base, q[1], q[2]),
                                        ImageAt(overlay, q[1] - offset[1],
                                                q[2] - offset[2]), mode))
                ELSE base.px[q]]]

\* A loop that takes a layer whether or not its frame was fetched.
NeverSkipped(err) == FALSE

\* if err != nil { continue }
Skipped(err) == err

\* The loop of GetFrame over the layers from i on.
RECURSIVE CompositeLayers(_, _, _, _)
CompositeLayers(i, composite, t, broken) ==
    IF i > Len(cvClips)
    THEN composite
    ELSE IF Skipped(LayerFails(i, t, broken))
    THEN CompositeLayers(i + 1, composite, t, broken)
    ELSE CompositeLayers(i + 1,
                         compositeFrame(composite,
                                        applyTransform(LayerFrame(i),
                                                       cvPositions[i]),
                                        cvPositions[i], cvMode),
                         t, broken)

\* The longest of the layers' durations.
RECURSIVE MaxDuration(_)
MaxDuration(clips) ==
    IF Len(clips) = 1
    THEN clips[1].dur
    ELSE LET rest == MaxDuration(Tail(clips))
         IN  IF rest > clips[1].dur THEN rest ELSE clips[1].dur

NewPosition(x, y) == [X |-> x, Y |-> y, Center |-> FALSE, Scale |-> 1]

NewCenteredPosition == [X |-> 0, Y |-> 0, Center |-> TRUE, Scale |-> 1]

\* The positions callers hand in: made by the two constructors, or with the
\* Scale field set to 2 afterwards.
Positions ==
    {NewPosition(x, 0) : x \in {0, 1}}
        \cup {NewCenteredPosition}
        \cup {[NewPosition(0, 0) EXCEPT !.Scale = 2]}

\* Positions anywhere around the canvas: left of and above it, inside it,
\* at and beyond its right and bottom edge, centred, and at either scale.
Placements ==
    {[NewPosition(x, y) EXCEPT !.Scale = s] :
        x \in (0 - 1)..MaxDim, y \in (0 - 1)..MaxDim, s \in {1, 2}}
        \cup {[NewCenteredPosition EXCEPT !.Scale = s] : s \in {1, 2}}

CompositeModes == {"Overlay", "Add", "Multiply", "Screen", "Darken", "Lighten"}

\* The layers callers hand in: opened video files, all of one height.
LayerClips == [dur : 1..MaxDur, w : Dims, h : {MaxDim}]

\* NewCompositeVideoClip(clips, positions, mode, pm) with a position for
\* every clip: the size of the first clip, the longest duration.
NewCompositeVideoClip(clips, positions, mode) ==
    /\ cvClips = <<>>
    /\ Len(clips) > 0
    /\ Len(positions) = Len(clips)
    /\ cvClips' = clips
    /\ cvPositions' = positions
    /\ cvMode' = mode
    /\ cvSize' = [dur |-> MaxDuration(clips), w |-> clips[1].w,
                  h |-> clips[1].h]
    /\ UNCHANGED <<pmVars, procVars, termVars, closeVars, reaperVars, vwVars,
                   awVars, rdVars, wfVars, fxVars, ecVars, cvGot, lcVars, blVars, auVars>>

\* CompositeVideoClip.GetFrame(t), where the decodes of the layers in broken
\* fail.  The call changes nothing of the composite, so each composite is
\* followed up to the first call to return.
CompositeGetFrame(t, broken) ==
    /\ cvClips # <<>>
    /\ cvGot = NoFetch
    /\ cvGot' = IF LayerFails(1, t, broken)
                THEN [t |-> t, broken |-> broken, ok |-> FALSE,
                      frame |-> NoImage]
                ELSE [t |-> t, broken |-> broken, ok |-> TRUE,
                      frame |-> CompositeLayers(2, BaseCopy(LayerFrame(1)),
                                                t, broken)]
    /\ UNCHANGED <<pmVars, procVars, termVars, closeVars, reaperVars, vwVars,
                   awVars, rdVars, wfVars, fxVars, ecVars, cvClips,
                   cvPositions, cvMode, cvSize, lcVars, blVars, auVars>>

----------------------------------------------------------------------------
\* The clips' lifetime: Open, the calls that make a clip from a clip, Close.

\* What a call returns.
Result(err, spawned) == [err |-> err, spawned |-> spawned]

\* A Subclip that only rejects a negative start.
NegativeStart(start, end, duration) == start < 0

\* if start < 0 || end > Duration() || start >= end
InvalidTimeRange(start, end, duration) ==
    start < 0 \/ end > duration \/ start >= end

\* The record of a call that has returned.
Returned(clipKind, op, wasClosed, args, res, made) ==
    [kind |-> clipKind, op |-> op, wasClosed |-> wasClosed,
     args |-> args, err |-> res.err, made |-> made,
     spawned |-> res.spawned, changed |-> FALSE]

\* A call returns ret and leaves the clips and the audio reader as given.
LcCall(ret, newVfc, newAfc, newAr, newEvc, newCvc) ==
    /\ vfc' = newVfc
    /\ afc' = newAfc
    /\ arClosed' = newAr
    /\ evc' = newEvc
    /\ cvc' = newCvc
    /\ lcRet' = [ret EXCEPT !.changed =
                    <<newVfc, newAfc, newAr, newEvc, newCvc>>
                        # <<vfc, afc, arClosed, evc, cvc>>]
    /\ UNCHANGED <<pmVars, procVars, termVars, closeVars, reaperVars, vwVars,
                   awVars, rdVars, wfVars, fxVars, ecVars, cvVars, blVars, auVars, lcDur>>

\* A call returns ret and changes nothing.
LcQuery(ret) == LcCall(ret, vfc, afc, arClosed, evc, cvc)

\* The next VideoFileClip to be made, 0 when the model has no room for one.
FreeClip ==
    IF \E j \in ClipIds : ~vfc[j].made
    THEN CHOOSE j \in ClipIds :
             ~vfc[j].made /\ \A k \in ClipIds : k < j => vfc[k].made
    ELSE 0

\* VideoFileClip.Open on the clip NewVideoFileClip made: on a closed clip an
\* error; else ffprobe runs, the reader is set, and a file with an audio
\* stream gets an opened AudioFileClip.
VfcOpen(d, hasAudio) ==
    /\ ~vfc[1].reader
    /\ IF vfc[1].closed
       THEN /\ lcRet' = Returned("video", "Open", TRUE, NoArgs,
                                 Result("closed", FALSE), FALSE)
            /\ UNCHANGED <<vfc, afc, lcDur>>
       ELSE /\ vfc' = [vfc EXCEPT ![1] = [@ EXCEPT !.reader = TRUE,
                                                   !.audio = hasAudio,
                                                   !.dur = d]]
            /\ afc' = IF hasAudio
                      THEN [made |-> TRUE, closed |-> FALSE, reader |-> TRUE]
                      ELSE afc
            /\ lcDur' = d
            /\ lcRet' = [Returned("video", "Open", FALSE, NoArgs,
                                  Result("nil", TRUE), FALSE)
                            EXCEPT !.changed = TRUE]
    /\ UNCHANGED <<pmVars, procVars, termVars, closeVars, reaperVars, vwVars,
                   awVars, rdVars, wfVars, fxVars, ecVars, cvVars, blVars, auVars,
                   arClosed,
                   evc, cvc>>

\* AudioReader.GetAudioFrame(t) up to cmd.Start().
ArGetAudioFrame(t) ==
    IF arClosed THEN Result("closed", FALSE)
    ELSE IF t > lcDur THEN Result("range", FALSE)
    ELSE Result("nil", TRUE)

\* AudioFileClip.GetAudioFrame(t)
AfcGetAudioFrameResult(t) ==
    IF afc.closed THEN Result("closed", FALSE)
    ELSE IF ~afc.reader THEN Result("notOpen", FALSE)
    ELSE ArGetAudioFrame(t)

\* VideoFileClip.GetFrame(t) of clip i, up to the reader's cmd.Start().
VfcGetFrameResult(i, t) ==
    LET c == vfc[i]
        absoluteTime == IF c.speed # 1 /\ c.speed # 0
                        THEN c.start + t * c.speed
                        ELSE c.start + t
    IN  IF c.closed THEN Result("closed", FALSE)
        ELSE IF ~c.reader THEN Result("notOpen", FALSE)
        ELSE IF absoluteTime > lcDur THEN Result("range", FALSE)
        ELSE Result("nil", TRUE)

\* VideoFileClip.GetAudioFrame(t) of clip i: silence when the clip has no
\* audio.
VfcGetAudioFrameResult(i, t) ==
    IF vfc[i].closed THEN Result("closed", FALSE)
    ELSE IF ~vfc[i].audio THEN Result("nil", FALSE)
    ELSE AfcGetAudioFrameResult(t)

VfcGetFrame(i, t) ==
    /\ vfc[i].made
    /\ LcQuery(Returned("video", "GetFrame", vfc[i].closed, NoArgs,
                        VfcGetFrameResult(i, t), FALSE))

VfcGetAudioFrame(i, t) ==
    /\ vfc[i].made
    /\ LcQuery(Returned("video", "GetAudioFrame", vfc[i].closed, NoArgs,
                        VfcGetAudioFrameResult(i, t), FALSE))

\* The clip a VideoFileClip method builds from clip i: it shares the
\* reader and the audio clip.
VfcDerived(i, start, dur, speed) ==
    [vfc EXCEPT ![FreeClip] =
        [made |-> TRUE, closed |-> FALSE, reader |-> vfc[i].reader,
         audio |-> vfc[i].audio, start |-> start, dur |-> dur,
         speed |-> speed]]

\* VideoFileClip.Subclip(start, end) of clip i.
VfcSubclip(i, start, end) ==
    /\ vfc[i].made
    /\ IF InvalidTimeRange(start, end, vfc[i].dur)
       THEN LcQuery(Returned("video", "Subclip", vfc[i].closed,
                             <<start, end, vfc[i].dur>>,
                             Result("range", FALSE), FALSE))
       ELSE /\ FreeClip # 0
            /\ LcCall(Returned("video", "Subclip", vfc[i].closed,
                               <<start, end, vfc[i].dur>>,
                               Result("nil", FALSE), TRUE),
                      VfcDerived(i, start, end - start, vfc[i].speed),
                      afc, arClosed, evc, cvc)

\* VideoFileClip.WithSpeed(factor) of clip i, factor > 0, for durations the
\* factor divides into whole seconds.
VfcWithSpeed(i, factor) ==
    /\ vfc[i].made
    /\ vfc[i].dur % factor = 0
    /\ FreeClip # 0
    /\ LcCall(Returned("video", "WithSpeed", vfc[i].closed, NoArgs,
                       Result("nil", FALSE), TRUE),
              VfcDerived(i, vfc[i].start, vfc[i].dur \div factor, factor),
              afc, arClosed, evc, cvc)

\* VideoFileClip.WithVolume(factor) of clip i, factor >= 0.
VfcWithVolume(i) ==
    /\ vfc[i].made
    /\ FreeClip # 0
    /\ LcCall(Returned("video", "WithVolume", vfc[i].closed, NoArgs,
                       Result("nil", FALSE), TRUE),
              VfcDerived(i, vfc[i].start, vfc[i].dur, vfc[i].speed),
              afc, arClosed, evc, cvc)

\* VideoFileClip.WriteToFile of clip i: nothing on a closed clip; else the
\* encoder is started and the frames are fetched.
VfcWriteToFile(i) ==
    /\ vfc[i].made
    /\ LcQuery(Returned("video", "WriteToFile", vfc[i].closed, NoArgs,
                        IF vfc[i].closed THEN Result("closed", FALSE)
                        ELSE IF vfc[i].dur > 0 /\ ~vfc[i].reader
                        THEN Result("notOpen", TRUE)
                        ELSE Result("nil", TRUE),
                        FALSE))

\* AudioFileClip.Close: closes its reader.
AfcClosed == [afc EXCEPT !.closed = TRUE, !.reader = FALSE]

\* VideoFileClip.Close of clip i: the clip forgets the reader and closes the
\* audio clip it holds.
VfcClose(i) ==
    /\ vfc[i].made
    /\ IF vfc[i].closed
       THEN LcQuery(Returned("video", "Close", TRUE, NoArgs,
                             Result("nil", FALSE), FALSE))
       ELSE LcCall(Returned("video", "Close", FALSE, NoArgs,
                            Result("nil", FALSE), FALSE),
                   [vfc EXCEPT ![i] = [@ EXCEPT !.closed = TRUE,
                                                !.reader = FALSE,
                                                !.audio = FALSE]],
                   IF vfc[i].audio /\ ~afc.closed THEN AfcClosed ELSE afc,
                   IF vfc[i].audio /\ ~afc.closed /\ afc.reader
                   THEN TRUE ELSE arClosed,
                   evc, cvc)

\* AudioFileClip.GetAudioFrame(t)
AfcGetAudioFrame(t) ==
    /\ afc.made
    /\ LcQuery(Returned("audio", "GetAudioFrame", afc.closed, NoArgs,
                        AfcGetAudioFrameResult(t), FALSE))

\* AudioFileClip.Subclip(start, end): the new clip has no reader.
AfcSubclip(start, end) ==
    /\ afc.made
    /\ LcQuery(IF afc.closed
               THEN Returned("audio", "Subclip", TRUE,
                             <<start, end, lcDur>>,
                             Result("closed", FALSE), FALSE)
               ELSE IF InvalidTimeRange(start, end, lcDur)
               THEN Returned("audio", "Subclip", FALSE,
                             <<start, end, lcDur>>,
                             Result("range", FALSE), FALSE)
               ELSE Returned("audio", "Subclip", FALSE,
                             <<start, end, lcDur>>,
                             Result("nil", FALSE), TRUE))

\* AudioFileClip.WithSpeed, WithVolume with valid factors, WriteToFile and
\* Open: each begins with the closed check.
AfcOther(op) ==
    /\ afc.made
    /\ IF afc.closed
       THEN LcQuery(Returned("audio", op, TRUE, NoArgs,
                             Result("closed", FALSE), FALSE))
       ELSE IF op \in {"WithSpeed", "WithVolume"}
       THEN LcQuery(Returned("audio", op, FALSE, NoArgs,
                             Result("nil", FALSE), TRUE))
       ELSE IF op = "WriteToFile"
       THEN LcQuery(Returned("audio", op, FALSE, NoArgs,
                             Result("nil", TRUE), FALSE))
       ELSE LcCall(Returned("audio", op, FALSE, NoArgs,
                            Result("nil", TRUE), FALSE),
                   vfc, [afc EXCEPT !.reader = TRUE], FALSE, evc, cvc)

\* AudioFileClip.Close
AfcClose ==
    /\ afc.made
    /\ IF afc.closed
       THEN LcQuery(Returned("audio", "Close", TRUE, NoArgs,
                             Result("nil", FALSE), FALSE))
       ELSE LcCall(Returned("audio", "Close", FALSE, NoArgs,
                            Result("nil", FALSE), FALSE),
                   vfc, AfcClosed, IF afc.reader THEN TRUE ELSE arClosed,
                   evc, cvc)

\* NewEffectVideoClip and NewCompositeVideoClip over the opened clip 1: the
\* new clip takes its duration from it.
WrapperNew(w) ==
    /\ vfc[1].reader
    /\ ~(IF w = "effect" THEN evc ELSE cvc).made
    /\ LcCall(Returned(w, "New", FALSE, NoArgs, Result("nil", FALSE), TRUE),
              vfc, afc, arClosed,
              IF w = "effect"
              THEN [made |-> TRUE, closed |-> FALSE, dur |-> vfc[1].dur]
              ELSE evc,
              IF w = "composite"
              THEN [made |-> TRUE, closed |-> FALSE, dur |-> vfc[1].dur]
              ELSE cvc)

\* The EffectVideoClip or the CompositeVideoClip.
Wrapper(w) == IF w = "effect" THEN evc ELSE cvc

\* GetFrame and GetAudioFrame of either: the closed check, then the call on
\* clip 1 (the original clip, the base layer).
WrapperGet(w, op, t) ==
    /\ Wrapper(w).made
    /\ LcQuery(Returned(w, op, Wrapper(w).closed, NoArgs,
                        IF Wrapper(w).closed THEN Result("closed", FALSE)
                        ELSE IF op = "GetFrame" THEN VfcGetFrameResult(1, t)
                        ELSE VfcGetAudioFrameResult(1, t),
                        FALSE))

\* Subclip of either: the range check against its own duration, then
\* Subclip of clip 1 and a new clip around the result.
WrapperSubclip(w, start, end) ==
    /\ Wrapper(w).made
    /\ LcQuery(IF InvalidTimeRange(start, end, Wrapper(w).dur)
               THEN Returned(w, "Subclip", Wrapper(w).closed,
                             <<start, end, Wrapper(w).dur>>,
                             Result("range", FALSE), FALSE)
               ELSE IF InvalidTimeRange(start, end, vfc[1].dur)
               THEN Returned(w, "Subclip", Wrapper(w).closed,
                             <<start, end, Wrapper(w).dur>>,
                             Result("wrapped", FALSE), FALSE)
               ELSE Returned(w, "Subclip", Wrapper(w).closed,
                             <<start, end, Wrapper(w).dur>>,
                             Result("nil", FALSE), TRUE))

\* WithSpeed and WithVolume of either with valid factors, and WriteToFile.
WrapperOther(w, op) ==
    /\ Wrapper(w).made
    /\ LcQuery(IF op = "WriteToFile"
               THEN Returned(w, op, Wrapper(w).closed, NoArgs,
                             IF Wrapper(w).closed THEN Result("closed", FALSE)
                             ELSE Result("nil", TRUE),
                             FALSE)
               ELSE Returned(w, op, Wrapper(w).closed, NoArgs,
                             Result("nil", FALSE), TRUE))

\* Close of either: the flag is set, clip 1 is left alone.
WrapperClose(w) ==
    /\ Wrapper(w).made
    /\ LcCall(Returned(w, "Close", Wrapper(w).closed, NoArgs,
                       Result("nil", FALSE), FALSE),
              vfc, afc, arClosed,
              IF w = "effect" THEN [evc EXCEPT !.closed = TRUE] ELSE evc,
              IF w = "composite" THEN [cvc EXCEPT !.closed = TRUE] ELSE cvc)

----------------------------------------------------------------------------
\* The supervisor and everything that runs beside it.

Next ==
    \/ \E p \in Pids : StartProcessSpawn(p)
    \/ \E p \in Pids : StartProcessRegister(p)
    \/ \E p \in Pids : VideoWriterOpen(p)
    \/ \E p \in Pids : AudioWriterOpenStart(p)
    \/ \E p \in Pids : AudioWriterOpenRegister(p)
    \/ \E p \in Pids : SetCleanup(p)
    \/ \E p \in Pids : ProcExit(p)
    \/ \E p \in Pids : MonitorWait(p)
    \/ \E p \in Pids : MonitorSend(p)
    \/ \E p \in Pids : MonitorDelete(p)
    \/ \E p \in Pids : MonitorCleanup(p)
    \/ \E p \in Pids : IsRunning(p)
    \/ \E p \in Pids : Wait(p)
    \/ \E p \in Pids : Terminate(p)
    \/ \E p \in Pids : TerminateLookup(p)
    \/ \E t \in Callers : TerminateSignal(t)
    \/ \E t \in Callers : TerminateDone(t)
    \/ \E t \in Callers : TerminateTimeout(t)
    \/ CloseBegin
    \/ \E p \in Pids : KillAllNext(p)
    \/ CloseReturn
    \/ ReaperTick
    \/ \E p \in Pids : ReaperCheck(p)

Spec == Init /\ [][Next]_vars

\* The scheduling the code relies on: goroutines that can run do run (the
\* monitoring goroutine, a TerminateProcess caller, whose select always
\* resolves because of its timer), and a process that was sent SIGKILL, or
\* was killed through its context, exits.
Killed(p) == sig[p] \cap {"KILL", "CTXKILL"} # {}

ProcKilled(p) == Killed(p) /\ ProcExit(p)

Fairness ==
    /\ \A p \in Pids : WF_vars(ProcKilled(p))
    /\ \A p \in Pids : WF_vars(MonitorWait(p))
    /\ \A p \in Pids : WF_vars(MonitorSend(p))
    /\ \A p \in Pids : WF_vars(MonitorDelete(p))
    /\ \A t \in Callers : WF_vars(TerminateSignal(t))
    /\ \A t \in Callers : WF_vars(TerminateDone(t) \/ TerminateTimeout(t))

FairSpec == Spec /\ Fairness

\* The supervisor with the system calls of TerminateProcess interleaved with
\* everything else.
NextSyscalls ==
    \/ \E p \in Pids : StartProcessSpawn(p)
    \/ \E p \in Pids : StartProcessRegister(p)
    \/ \E p \in Pids : AudioWriterOpenStart(p)
    \/ \E p \in Pids : AudioWriterOpenRegister(p)
    \/ \E p \in Pids : ProcExit(p)
    \/ \E p \in Pids : MonitorWait(p)
    \/ \E p \in Pids : MonitorSend(p)
    \/ \E p \in Pids : MonitorDelete(p)
    \/ \E p \in Pids : MonitorCleanup(p)
    \/ \E p \in Pids : TerminateLookup(p)
    \/ \E t \in Callers : TerminateGetpgid(t)
    \/ \E t \in Callers : TerminateKill(t)
    \/ \E t \in Callers : TerminateDone(t)
    \/ \E t \in Callers : TimeoutGetpgid(t)
    \/ \E t \in Callers : TimeoutKill(t)
    \/ CloseBegin
    \/ \E p \in Pids : KillAllNext(p)
    \/ CloseReturn
    \/ ReaperTick
    \/ \E p \in Pids : ReaperCheck(p)

SpecSyscalls == Init /\ [][NextSyscalls]_vars

\* A VideoWriter, its encoder process and the goroutine waiting for it.
NextWriter ==
    \/ \E p \in Pids : VideoWriterOpen(p)
    \/ \E n \in 1..MaxCalls : WriteFrames(n)
    \/ \E f \in WriterFrames(Len(vwLog) + 1), b \in {0, 1} : WriteFrameBegin(f, b)
    \/ WriteFrameWrite
    \/ VideoWriterClose
    \/ VideoWriterCloseWait
    \/ \E p \in Pids : ProcExit(p)
    \/ \E p \in Pids : MonitorWait(p)
    \/ \E p \in Pids : MonitorSend(p)

SpecWriter == InitWriter /\ [][NextWriter]_vars

\* A writer on which Open is called up to MaxOpens times: Open tests only
\* vw.closed, so every call starts another encoder.
NextReopen ==
    \/ \E p \in 1..MaxOpens : VideoWriterOpen(p)
    \/ \E f \in WriterFrames(Len(vwLog) + 1), b \in {0, 1} : WriteFrameBegin(f, b)
    \/ WriteFrameWrite
    \/ VideoWriterClose
    \/ VideoWriterCloseWait
    \/ \E p \in 1..MaxOpens : ProcExit(p)
    \/ \E p \in 1..MaxOpens : MonitorWait(p)
    \/ \E p \in 1..MaxOpens : MonitorSend(p)

SpecReopen == InitWriter /\ [][NextReopen]_vars

\* A video file clip, the clips derived from it and the decode calls.
NextReader ==
    \/ \E d \in 1..MaxDur, w \in Dims, ch \in 0..2 : VideoFileClipOpen(d, w, ch)
    \/ UseSource
    \/ \E start, end \in Times : Subclip(start, end)
    \/ \E factor \in Speeds : WithSpeed(factor)
    \/ \E t \in Times : VideoGetFrame(t)
    \/ \E t \in Times : AudioGetFrame(t)
    \/ \E out \in 0..(MaxDim * 3 + 9) : ReaderRead(out)
    \/ \E exit \in {0, 1} : ReaderWait(exit)

SpecReader == Init /\ [][NextReader]_vars

\* WriteToFile on an opened file: the calls it makes, the encoder and the
\* goroutine that waits for it.
NextExport ==
    \/ \E d \in 1..MaxDur, w \in Dims, ch \in 0..2 : VideoFileClipOpen(d, w, ch)
    \/ \E stream \in {"video", "audio"} : WriteToFile(stream)
    \/ wf.pc = "open" /\ wf.stream = "video" /\ ~Opened
          /\ \E p \in Pids : VideoWriterOpen(p)
    \/ wf.pc = "open" /\ wf.stream = "audio" /\ ~Opened
          /\ \E p \in Pids : AudioWriterOpenStart(p)
    \/ \E p \in Pids : AudioWriterOpenRegister(p)
    \/ WriteToFileLoop
    \/ wf.pc = "fetch" /\ wf.stream = "video" /\ ~Fetched /\ VideoGetFrame(wf.i)
    \/ wf.pc = "fetch" /\ wf.stream = "audio" /\ ~Fetched /\ AudioGetFrame(wf.i)
    \/ \E out \in 0..(MaxDim * 3 + 9) : ReaderRead(out)
    \/ \E exit \in {0, 1} : ReaderWait(exit)
    \/ WriteToFileFetched
    \/ wf.pc = "write" /\ wf.stream = "video" /\ Len(vwLog) = wf.i
          /\ \E f \in FetchedFrames : WriteFrameBegin(f, 0)
    \/ WriteFrameWrite
    \/ WriteToFileWritten
    \/ WriteSamples
    \/ wf.pc = "close" /\ wf.stream = "video" /\ VideoWriterClose
    \/ VideoWriterCloseWait
    \/ wf.pc = "close" /\ wf.stream = "audio" /\ AudioWriterClose
    \/ WriteToFileReturn
    \/ \E p \in Pids : ProcExit(p)
    \/ \E p \in Pids : MonitorWait(p)
    \/ \E p \in Pids : MonitorSend(p)
    \/ \E p \in Pids : MonitorDelete(p)

SpecExport == Init /\ [][NextExport]_vars

\* An effect clip, the effect objects and the calls on them.
NextEffects ==
    \/ \E width, height \in FxDims : NewEffectVideoClip(width, height)
    \/ \E e \in FxIds, effect \in NewEffects : NewEffect(e, effect)
    \/ \E e \in FxIds : AddEffect(e)
    \/ ClearEffects
    \/ EffectGetFrame
    \/ \E e \in FxIds : ChainAddEffect(e)
    \/ \E width, height \in FxDims : ChainApplyToFrame(width, height)

SpecEffects == Init /\ [][NextEffects]_vars

\* The crop rectangles callers pass to NewCropEffect: any corner, left of,
\* inside or beyond the frames, and any size from zero up.
CropRects ==
    {NewCropEffect(x, y, w, h) : x \in (0 - 1)..(MaxDim + 1),
                                 y \in (0 - 1)..(MaxDim + 1),
                                 w \in 0..(MaxDim + 1), h \in 0..(MaxDim + 1)}

\* One crop effect, put alone into an effect chain and applied to frames.
NextCrop ==
    \/ \E effect \in CropRects : NewEffect(1, effect)
    \/ ecEffects = <<>> /\ ChainAddEffect(1)
    \/ ecEffects # <<>> /\ \E width, height \in FxDims :
                               ChainApplyToFrame(width, height)

SpecCrop == Init /\ [][NextCrop]_vars

\* Sequences of up to n elements of S, none empty.
SeqsUpTo(S, n) == UNION {[1..k -> S] : k \in 1..n}

\* A composite of video files and the frames asked of it.
NextComposite ==
    \/ /\ cvClips = <<>>
       /\ \E clips \in SeqsUpTo(LayerClips, MaxLayers) :
          \E positions \in [1..Len(clips) -> Positions], mode \in CompositeModes :
              /\ positions[1] = NewPosition(0, 0)
              /\ NewCompositeVideoClip(clips, positions, mode)
    \/ \E t \in Times, broken \in SUBSET (1..Len(cvClips)) :
          CompositeGetFrame(t, broken)

SpecComposite == Init /\ [][NextComposite]_vars

\* A composite of a base and one layer placed anywhere around it.
NextPlacement ==
    \/ /\ cvClips = <<>>
       /\ \E base \in LayerClips, layer \in LayerClips :
          \E position \in Placements, mode \in CompositeModes :
              NewCompositeVideoClip(<<base, layer>>,
                                    <<NewPosition(0, 0), position>>, mode)
    \/ \E t \in Times, broken \in SUBSET (1..Len(cvClips)) :
          CompositeGetFrame(t, broken)

SpecPlacement == Init /\ [][NextPlacement]_vars

\* A call of blendColors: it keeps no state, so a run follows one call.
NextBlend ==
    /\ blCall = NoBlend
    /\ \E base \in Colours, overlay \in Colours, mode \in CompositeModes :
          BlendColors(base, overlay, mode)

SpecBlend == Init /\ [][NextBlend]_vars

\* The bounds handed to Subclip.
Starts == (0 - 1)..(MaxDur - 1)

Ends == 0..(MaxDur + 1)

\* The two kinds of clip built over another clip.
Wrappers == {"effect", "composite"}

\* A video file, the clips made from it and over it, and their Close.
NextClips ==
    \/ \E hasAudio \in BOOLEAN : VfcOpen(MaxDur, hasAudio)
    \/ \E i \in ClipIds, t \in Times : VfcGetFrame(i, t)
    \/ \E i \in ClipIds, t \in Times : VfcGetAudioFrame(i, t)
    \/ \E i \in ClipIds, start \in Starts, end \in Ends : VfcSubclip(i, start, end)
    \/ \E i \in ClipIds, factor \in Speeds : VfcWithSpeed(i, factor)
    \/ \E i \in ClipIds : VfcWithVolume(i)
    \/ \E i \in ClipIds : VfcWriteToFile(i)
    \/ \E i \in ClipIds : VfcClose(i)
    \/ \E t \in Times : AfcGetAudioFrame(t)
    \/ \E start \in Starts, end \in Ends : AfcSubclip(start, end)
    \/ \E op \in {"WithSpeed", "WithVolume", "WriteToFile", "Open"} : AfcOther(op)
    \/ AfcClose
    \/ \E w \in Wrappers : WrapperNew(w)
    \/ \E w \in Wrappers, op \in {"GetFrame", "GetAudioFrame"}, t \in Times :
          WrapperGet(w, op, t)
    \/ \E w \in Wrappers, start \in Starts, end \in Ends :
          WrapperSubclip(w, start, end)
    \/ \E w \in Wrappers, op \in {"WithSpeed", "WithVolume", "WriteToFile"} :
          WrapperOther(w, op)
    \/ \E w \in Wrappers : WrapperClose(w)

SpecClips == Init /\ [][NextClips]_vars

----------------------------------------------------------------------------
\* AudioFileClip: NewAudioFileClip made clip 1; Subclip, WithSpeed and
\* WithVolume make the others.

\* The factors handed to WithSpeed and WithVolume.
Factors == (0 - 1)..2

\* A call on an AudioFileClip returns ret and leaves the clips as given.
AuCall(ret, clips) ==
    /\ audioClips' = clips
    /\ auRet' = ret
    /\ UNCHANGED <<pmVars, procVars, termVars, closeVars, reaperVars, vwVars,
                   awVars, rdVars, wfVars, fxVars, ecVars, cvVars, lcVars,
                   blVars>>

AuReturned(i, op, err, made, factor, spawned) ==
    [clip |-> i, op |-> op, err |-> err, made |-> made, factor |-> factor,
     before |-> audioClips[i].dur, spawned |-> spawned]

\* The next AudioFileClip to be made, 0 when the model has no room for one.
FreeAudio ==
    IF \E j \in AudioIds : ~audioClips[j].made
    THEN CHOOSE j \in AudioIds :
             ~audioClips[j].made /\ \A k \in AudioIds : k < j => audioClips[k].made
    ELSE 0

\* &AudioFileClip{BaseAudioClip: NewBaseAudioClip(start, end, duration, fps,
\* ...), filename, processMgr}: the literal names no reader, so the new
\* clip's reader is nil.
AudioDerived(i, start, end, duration, fps) ==
    [audioClips EXCEPT ![FreeAudio] =
        [made |-> TRUE, closed |-> FALSE, reader |-> FALSE, from |-> i,
         fromOpen |-> audioClips[i].reader, start |-> start, end |-> end,
         dur |-> duration, fps |-> fps]]

\* A WithSpeed that divides the duration by the factor.
Slowed(duration, factor) == duration \div factor

\* afc.Duration()/time.Duration(factor*float64(time.Second))
SpeedDuration(duration, factor) == duration \div (factor * Second)

\* AudioFileClip.Open on clip 1, of a file of d seconds.
AudioFileClipOpen(d) ==
    IF audioClips[1].closed
    THEN AuCall(AuReturned(1, "Open", "closed", 0, 0, FALSE), audioClips)
    ELSE AuCall(AuReturned(1, "Open", "nil", 0, 0, TRUE),
                [audioClips EXCEPT ![1] =
                    [@ EXCEPT !.reader = TRUE, !.start = 0,
                              !.end = d * Second, !.dur = d * Second,
                              !.fps = SampleRate]])

\* AudioFileClip.GetAudioFrame(t) of clip i; the reader rejects a time past
\* the end of the file.
AudioGetAudioFrameResult(i, t) ==
    IF audioClips[i].closed THEN "closed"
    ELSE IF ~audioClips[i].reader THEN "notOpen"
    ELSE IF t > MaxDur * Second THEN "range"
    ELSE "nil"

AudioGetAudioFrame(i, t) ==
    /\ audioClips[i].made
    /\ AuCall(AuReturned(i, "GetAudioFrame", AudioGetAudioFrameResult(i, t),
                         0, 0, AudioGetAudioFrameResult(i, t) = "nil"),
              audioClips)

\* AudioFileClip.Subclip(start, end) of clip i.
AudioSubclip(i, start, end) ==
    /\ audioClips[i].made
    /\ IF audioClips[i].closed
       THEN AuCall(AuReturned(i, "Subclip", "closed", 0, 0, FALSE), audioClips)
       ELSE IF InvalidTimeRange(start, end, audioClips[i].dur)
       THEN AuCall(AuReturned(i, "Subclip", "range", 0, 0, FALSE), audioClips)
       ELSE /\ FreeAudio # 0
            /\ AuCall(AuReturned(i, "Subclip", "nil", FreeAudio, 0, FALSE),
                      AudioDerived(i, start, end, end - start,
                                   audioClips[i].fps))

\* AudioFileClip.WithSpeed(factor) of clip i.
AudioWithSpeed(i, factor) ==
    /\ audioClips[i].made
    /\ IF audioClips[i].closed
       THEN AuCall(AuReturned(i, "WithSpeed", "closed", 0, factor, FALSE),
                   audioClips)
       ELSE IF factor <= 0
       THEN AuCall(AuReturned(i, "WithSpeed", "speed", 0, factor, FALSE),
                   audioClips)
       ELSE /\ FreeAudio # 0
            /\ AuCall(AuReturned(i, "WithSpeed", "nil", FreeAudio, factor,
                                 FALSE),
                      AudioDerived(i, audioClips[i].start, audioClips[i].end,
                                   SpeedDuration(audioClips[i].dur, factor),
                                   audioClips[i].fps * factor))

\* AudioFileClip.WithVolume(factor) of clip i.
AudioWithVolume(i, factor) ==
    /\ audioClips[i].made
    /\ IF audioClips[i].closed
       THEN AuCall(AuReturned(i, "WithVolume", "closed", 0, factor, FALSE),
                   audioClips)
       ELSE IF factor < 0
       THEN AuCall(AuReturned(i, "WithVolume", "volume", 0, factor, FALSE),
                   audioClips)
       ELSE /\ FreeAudio # 0
            /\ AuCall(AuReturned(i, "WithVolume", "nil", FreeAudio, factor,
                                 FALSE),
                      AudioDerived(i, audioClips[i].start, audioClips[i].end,
                                   audioClips[i].dur, audioClips[i].fps))

\* totalFrames := int(afc.Duration().Seconds() * afc.FPS())
TotalFrames(i) == (audioClips[i].dur * audioClips[i].fps) \div Second

\* AudioFileClip.WriteToFile of clip i: the encoder is started, then the
\* frames are fetched from 0 on; the first failing fetch ends the call.
AudioWriteToFile(i) ==
    /\ audioClips[i].made
    /\ AuCall(IF audioClips[i].closed
              THEN AuReturned(i, "WriteToFile", "closed", 0, 0, FALSE)
              ELSE IF TotalFrames(i) > 0
              THEN AuReturned(i, "WriteToFile",
                              AudioGetAudioFrameResult(i, 0), 0, 0, TRUE)
              ELSE AuReturned(i, "WriteToFile", "nil", 0, 0, TRUE),
              audioClips)

\* AudioFileClip.Close of clip i.
AudioClose(i) ==
    /\ audioClips[i].made
    /\ AuCall(AuReturned(i, "Close", "nil", 0, 0, FALSE),
              IF audioClips[i].closed THEN audioClips
              ELSE [audioClips EXCEPT ![i] =
                       [@ EXCEPT !.closed = TRUE, !.reader = FALSE]])

NextAudio ==
    \/ AudioFileClipOpen(MaxDur)
    \/ \E i \in AudioIds, t \in Times : AudioGetAudioFrame(i, t * Second)
    \/ \E i \in AudioIds, start \in Starts, end \in Ends :
          AudioSubclip(i, start * Second, end * Second)
    \/ \E i \in AudioIds, factor \in Factors : AudioWithSpeed(i, factor)
    \/ \E i \in AudioIds, factor \in Factors : AudioWithVolume(i, factor)
    \/ \E i \in AudioIds : AudioWriteToFile(i)
    \/ \E i \in AudioIds : AudioClose(i)

SpecAudio == Init /\ [][NextAudio]_vars

----------------------------------------------------------------------------
\* Properties of the supervisor.

\* A caller is inside TerminateProcess(p), past the lookup.
Terminating(t, p) == tpc[t] \in {"signal", "select"} /\ tpid[t] = p

\* C1: once TerminateProcess(pid) has found pid in the registry, the entry
\* is eventually removed, whether the process exits on SIGTERM or has to be
\* killed, whatever the reaper and the other receivers of done do.
C1_TerminateUnregisters ==
    \A p \in Pids : (\E t \in Callers : Terminating(t, p)) ~> (p \notin processes)

\* C1 witness: a process that ignored SIGTERM, was sent SIGKILL by the
\* timeout branch and has left the registry.
C1_Witness ==
    \E p \in Pids : /\ sig[p] = {"TERM", "KILL"}
                    /\ p \notin processes
                    /\ mon[p] = "finished"
                    /\ \E t \in Callers : tret[t] = "forced"

\* C2: at the moment Close returns the registry is empty.
C2_CloseLeavesNoProcess ==
    [][(cpc = "iter" /\ cpc' = "returned") => Cardinality(processes') = 0]_vars

\* C3: a StartProcess call made after Close has returned starts no process
\* (and so adds no entry to the registry).
C3_StartFailsAfterClose ==
    [][cpc = "returned" =>
        \A p \in Pids : kind[p] = "none" => kind'[p] # "managed"]_vars

\* C4: a pid is a key of the registry exactly when its process has been
\* started and not yet reaped. Stated between the calls: for a process whose
\* StartProcess or Open has returned and whose monitoring goroutine is still
\* blocked in cmd.Wait() (started, not reaped), and for a process whose
\* goroutine has finished (reaped).
C4_RegistryIffStartedUnreaped ==
    \A p \in Pids :
        /\ (mon[p] = "wait" => p \in processes)
        /\ (mon[p] = "finished" => p \notin processes)

\* C5: when Close returns, every process the supervisor spawned (StartProcess)
\* or holds in its registry that is still running has been sent a termination
\* signal.
C5_CloseSignalsEveryProcess ==
    [][(cpc = "iter" /\ cpc' = "returned") =>
        \A p \in Pids :
            (os[p] = "running" /\ (kind[p] = "managed" \/ p \in processes))
                => sig[p] # {}]_vars

C7_CleanupRunsOnce ==
    \A p \in Pids :
        (kind[p] = "managed" /\ mon[p] = "finished" /\ cleanup[p])
            => cleanupCalls[p] = 1

\* C8: a step of the reaper pass changes neither the registry nor what the
\* receivers of a process's completion signal will find.
C8_ReaperIsDiagnostic ==
    [][(rpc = "scan" /\ rprocs' # rprocs) =>
        (processes' = processes /\ done' = done)]_vars

\* C9: from the return of VideoWriter.Open or AudioWriter.Open to the exit of
\* the encoder, the encoder's pid is in the registry.
C9_EncoderIsRegistered ==
    \A p \in Pids :
        (kind[p] \in {"video", "audio"} /\ mon[p] = "wait" /\ os[p] = "running")
            => p \in processes

----------------------------------------------------------------------------
\* Properties of the frame encoder.

\* A frame whose width or height differs from the writer's declared size.
WrongSize(f) == <<f.w, f.h>> # <<vwWidth, vwHeight>>

\* C10: a WriteFrame call with a frame that is not of the declared size
\* returns an error, writes nothing to the pipe and changes nothing of the
\* writer or of its process's completion signal.
C10_MismatchRejected ==
    [][(Len(vwLog') > Len(vwLog) /\ WrongSize(vwLog'[Len(vwLog')].frame)) =>
        /\ vwLog'[Len(vwLog')].ret \in {"errClosed", "errNotOpen", "errSize"}
        /\ pipe' = pipe
        /\ done' = done
        /\ <<vwClosed, vwProcess, vwStdin, vwWidth, vwHeight, vwpc>>'
             = <<vwClosed, vwProcess, vwStdin, vwWidth, vwHeight, vwpc>>]_vars

\* C10 witness: an opened writer rejected a frame of the wrong size and then
\* accepted a frame of the declared size.
C10_Witness ==
    /\ Len(vwLog) = 2
    /\ vwLog[1].ret = "errSize"
    /\ WrongSize(vwLog[1].frame)
    /\ vwLog[2].ret = "ok"
    /\ ~WrongSize(vwLog[2].frame)
    /\ pipe[vwProcess] = PixelData(vwLog[2].frame)

\* C11: a WriteFrame call made on an open writer whose encoder has exited and
\* whose exit result has been delivered returns the exited-process error and
\* writes nothing; it never goes on to write into the pipe.
C11_ExitedProcessFailsFast ==
    [][(vwpc = "idle" /\ ~vwClosed /\ vwProcess # 0 /\ mon[vwProcess] = "finished") =>
        /\ vwpc' # "writing"
        /\ (Len(vwLog') > Len(vwLog) /\ ~WrongSize(vwLog'[Len(vwLog')].frame)) =>
              (vwLog'[Len(vwLog')].ret = "errExited" /\ pipe' = pipe)]_vars

\* C12: Close closes the pipe before it waits, and once the encoder has
\* exited and its goroutine has delivered the exit result, a Close that is
\* waiting can take it and return, whatever WriteFrame calls came before.
\* (The goroutine sends once; if the value is gone, Close waits forever.)
C12_CloseReturns ==
    vwpc = "closing" =>
        /\ vwStdin = "nil"
        /\ mon[vwProcess] = "finished" => done[vwProcess] = 1

\* The rgb24 image of frame f: its rows top to bottom, each row left to
\* right, each pixel as the high bytes of its red, green and blue channels.
ExpectedImage(f) ==
    [i \in 1..(f.w * f.h * 3) |->
        LET k == (i - 1) \div 3
            x == k % f.w
            y == k \div f.w
        IN  CASE (i - 1) % 3 = 0 -> f.c \div 256
              [] (i - 1) % 3 = 1 -> (257 * x) \div 256
              [] OTHER -> (257 * y) \div 256]

\* The images of the frames for which WriteFrame returned nil, in call order.
RECURSIVE ImagesOf(_)
ImagesOf(log) ==
    IF log = <<>> THEN <<>>
    ELSE LET last == log[Len(log)]
         IN  ImagesOf(SubSeq(log, 1, Len(log) - 1))
               \o (IF last.ret = "ok" THEN ExpectedImage(last.frame) ELSE <<>>)

\* Everything the writer has put on its pipes, the first n encoders' pipes
\* in the order the encoders were opened.
RECURSIVE PipeBytes(_)
PipeBytes(n) == IF n = 0 THEN <<>> ELSE PipeBytes(n - 1) \o pipe[n]

C14_OutOfRangeSpawnsNothing ==
    /\ rdRet.kind = "video" =>
          /\ (rdRet.t < 0 \/ rdRet.t > vrInfo[1].dur) =>
                (rdRet.ret = "errRange" /\ ~rdRet.spawned)
          /\ rdRet.spawned => (0 <= rdRet.t /\ rdRet.t <= vrInfo[1].dur)
    /\ (gpc # "idle" /\ gcall.kind = "video") =>
          (0 <= gcall.t /\ gcall.t <= vrInfo[1].dur)

\* C15: for every opened video clip, the source or one derived from it by
\* Subclip or WithSpeed, GetFrame(Duration() + 1s) fails with the range
\* error and spawns no process.
C15_PastTheEndIsRejected ==
    /\ (rdRet.kind = "video" /\ rdRet.req = rdRet.cdur + 1) =>
          (rdRet.ret = "errRange" /\ ~rdRet.spawned)
    /\ (gpc # "idle" /\ gcall.kind = "video") => gcall.req # gcall.cdur + 1

\* C16: VideoReader.GetFrame returns a frame only if exactly width*height*3
\* bytes were read and the process then exited successfully; on a short read
\* or a failed exit it returns an error and no frame.
C16_FrameOnlyFromFullReadAndCleanExit ==
    (rdRet.kind = "video" /\ rdRet.spawned) =>
        /\ rdRet.ret = "ok" <=>
              (rdRet.read = rdRet.need /\ rdRet.reaped /\ rdRet.exit = 0)
        /\ rdRet.out < rdRet.need => rdRet.ret = "errRead"
        /\ (rdRet.reaped /\ rdRet.exit # 0) => rdRet.ret = "errExit"

C16_Witness ==
    /\ rdRet.kind = "video" /\ rdRet.ret = "ok"
    /\ rdRet.need = vrInfo[1].width * vrInfo[1].height * 3
    /\ rdRet.read = rdRet.need /\ rdRet.need > 3
    /\ rdRet.exit = 0

\* C17: every process spawned by VideoReader.GetFrame or
\* AudioReader.GetAudioFrame has been waited for (reaped) by the time the
\* call returns, on success and on every error path, a short read included.
C17_SpawnedIsReapedAtReturn ==
    rdRet.spawned => rdRet.reaped

\* C18: when WriteToFile returns, with success or with the error of a frame
\* it could not fetch or write, the encoder process it spawned has exited and
\* no process spawned on its behalf remains registered in the ProcessManager.
C18_WriteToFileLeavesNothing ==
    wf.pc = "returned" =>
        \A p \in Pids :
            kind[p] \in {"video", "audio"} =>
                (os[p] # "running" /\ p \notin processes)

\* C19: after any sequence of AddEffect calls on an EffectVideoClip, every
\* successful GetFrame(t) returns a frame whose width and height equal the
\* clip's declared Width() and Height().
C19_FrameHasDeclaredSize ==
    (evcGot.ok /\ ~evcCleared) => evcGot.size = evcGot.declared

\* C20: after every mutation of the effect chain, by AddEffect or by
\* ClearEffects, the declared Width() and Height() equal the fold of the
\* dimension rules of the effects currently in the chain over the original
\* clip's size.
C20_DeclaredSizeIsFoldOfChain ==
    evcSize = updateFinalDimensions(evcEffects, fx, evcOrig).size

\* What a call of the loop over a chain must have done: the calls of
\* ApplyToFrame it made are on the effects of the chain in the order they
\* were added, the first with the frame handed in and each later one with the
\* image the one before returned; an error is the last call made and leaves
\* no frame; without an error every effect was called and the frame is the
\* last image returned.
InOrder(got) ==
    LET n == Len(got.trace)
    IN  /\ n <= Len(got.effects)
        /\ \A k \in 1..n :
              /\ got.trace[k].id = got.effects[k]
              /\ got.trace[k].in = IF k = 1 THEN got.from
                                   ELSE got.trace[k - 1].out
              /\ got.trace[k].err => k = n
        /\ IF n > 0 /\ got.trace[n].err
           THEN ~got.ok /\ got.size = <<0, 0>>
           ELSE /\ n = Len(got.effects)
                /\ got.ok
                /\ got.size = IF n = 0 THEN got.from ELSE got.trace[n].out

\* C21: EffectChain.ApplyToFrame and EffectVideoClip.GetFrame apply the
\* effects strictly in the order they were added, each effect receiving the
\* previous effect's output; if an effect fails they return an error and no
\* frame, without applying the effects after it.
C21_EffectsAppliedInOrder ==
    /\ evcGot # NoGot => InOrder(evcGot)
    /\ ecGot # NoGot => InOrder(ecGot)

C21_Witness ==
    /\ evcGot.ok
    /\ Len(evcGot.trace) >= 2
    /\ evcGot.trace[1].id # evcGot.trace[2].id
    /\ evcGot.trace[1].out # evcGot.from
    /\ evcGot.trace[2].out # evcGot.trace[1].out
    /\ fx[evcGot.trace[1].id].type # fx[evcGot.trace[2].id].type

\* The calls of ApplyToFrame on a Resize effect that the last runs of the
\* loops made.
ResizeSteps ==
    {evcGot.trace[k] : k \in {j \in 1..Len(evcGot.trace) :
                                fx[evcGot.trace[j].id].type = "resize"}}
        \cup {ecGot.trace[k] : k \in {j \in 1..Len(ecGot.trace) :
                                        fx[ecGot.trace[j].id].type = "resize"}}

\* C22: for every requested (w, h) and every source frame, the frame a
\* Resize effect produces has even width and even height: an even request is
\* kept and an odd request is incremented by 1.
C22_ResizeYieldsEvenSize ==
    /\ \A w, h \in FxDims :
          ResizeApplyToFrame(NewResizeEffect(w, h), evcOrig).size =
              <<IF w % 2 = 0 THEN w ELSE w + 1, IF h % 2 = 0 THEN h ELSE h + 1>>
    /\ \A step \in ResizeSteps :
          /\ ~step.err
          /\ step.out[1] % 2 = 0 /\ step.out[2] % 2 = 0
          /\ step.out = <<fx[step.id].width, fx[step.id].height>>

C22_Witness ==
    \E step \in ResizeSteps :
        /\ step.in[1] % 2 = 1 /\ step.in[2] % 2 = 1
        /\ step.out[1] # step.out[2]
        /\ step.out[1] % 2 = 0 /\ step.out[2] % 2 = 0

\* C23: the frame a composite of a single layer returns is that layer's own
\* frame, the same size and the same colour at every pixel, and the composite
\* fails exactly when the layer does.
C23_SingleLayerIsTheLayer ==
    (Len(cvClips) = 1 /\ cvGot # NoFetch) =>
        /\ cvGot.ok = ~LayerFails(1, cvGot.t, cvGot.broken)
        /\ cvGot.ok =>
              /\ cvGot.frame.w = LayerFrame(1).w
              /\ cvGot.frame.h = LayerFrame(1).h
              /\ \A p \in Pixels(LayerFrame(1).w, LayerFrame(1).h) :
                    cvGot.frame.px[p] = LayerFrame(1).px[p]

C23_Witness ==
    /\ Len(cvClips) = 1
    /\ cvGot.ok
    /\ cvGot.frame.w = 2
    /\ cvGot.frame.h = 2
    /\ cvGot.frame.px[<<0, 0>>] # cvGot.frame.px[<<1, 1>>]
    /\ cvGot.frame.px[<<1, 1>>] = <<40, 11, 12, 255>>

\* The layers above the base whose frame the call got.
Fetched24 == {i \in 2..Len(cvClips) : ~LayerFails(i, cvGot.t, cvGot.broken)}

\* The layers of kept from i on laid over the canvas, lowest first.
RECURSIVE LaidOver(_, _, _)
LaidOver(i, canvas, kept) ==
    IF i > Len(cvClips)
    THEN canvas
    ELSE LaidOver(i + 1,
                  IF i \in kept
                  THEN compositeFrame(canvas,
                                      applyTransform(LayerFrame(i), cvPositions[i]),
                                      cvPositions[i], cvMode)
                  ELSE canvas,
                  kept)

\* C24: when the base layer's frame cannot be fetched GetFrame returns an
\* error and no frame; otherwise it returns the base frame with exactly the
\* layers laid over it whose frames could be fetched, each failing layer
\* left out and nothing else.
C24_FailedLayerIsSkipped ==
    cvGot # NoFetch =>
        IF LayerFails(1, cvGot.t, cvGot.broken)
        THEN ~cvGot.ok /\ cvGot.frame = NoImage
        ELSE /\ cvGot.ok
             /\ cvGot.frame = LaidOver(2, LayerFrame(1), Fetched24)
             /\ Fetched24 = {} => cvGot.frame = LayerFrame(1)

C24_Witness ==
    /\ Len(cvClips) = 3
    /\ cvGot.ok
    /\ cvGot.broken = {2}
    /\ cvGot.t <= cvClips[2].dur
    /\ Fetched24 = {3}
    /\ cvGot.frame # LayerFrame(1)
    /\ cvGot.frame = compositeFrame(LayerFrame(1),
                                    applyTransform(LayerFrame(3), cvPositions[3]),
                                    cvPositions[3], cvMode)
    /\ cvGot.frame # LaidOver(2, LayerFrame(1), {2, 3})

\* C25: the composite's duration is the longest of its layers' durations,
\* and at every t from 0 to that duration, the decoders working, GetFrame
\* succeeds with exactly the layers laid over the canvas that are at least
\* t long.
C25_FrameAtEveryTimeOfTheLongestLayer ==
    cvClips # <<>> =>
        /\ \A i \in 1..Len(cvClips) : cvClips[i].dur <= cvSize.dur
        /\ \E i \in 1..Len(cvClips) : cvClips[i].dur = cvSize.dur
        /\ (cvGot # NoFetch /\ cvGot.broken = {}
                /\ cvGot.t >= 0 /\ cvGot.t <= cvSize.dur) =>
              /\ cvGot.ok
              /\ cvGot.frame =
                    LaidOver(2, LayerFrame(1),
                             {i \in 2..Len(cvClips) : cvClips[i].dur >= cvGot.t})

\* A step in which VideoFileClip.GetFrame is called on the clip in hand.
VideoCallStep ==
    /\ gpc = "idle"
    /\ \/ gpc' = "read" /\ gcall'.kind = "video"
       \/ gpc' = "idle" /\ rdRet' # rdRet /\ rdRet'.kind = "video"

\* The call of such a step: the time asked for and the time handed to the
\* reader.
CallOfStep == IF gpc' = "read" THEN gcall' ELSE rdRet'

\* C26: a clip made from the opened source clip of duration D by Subclip(a, b)
\* reports the duration b - a and its GetFrame(t) asks the reader for a + t;
\* one made by WithSpeed(f) reports D / f and its GetFrame(t) asks the reader
\* for t * f.
C26_DerivedClipMapsTime ==
    /\ [](/\ clip.via.op = "Subclip" => clip.dur = clip.via.b - clip.via.a
          /\ clip.via.op = "WithSpeed" =>
                clip.dur * clip.via.f = vrInfo[1].dur)
    /\ [][VideoCallStep =>
             /\ clip.via.op = "Subclip" =>
                   CallOfStep.t = clip.via.a + CallOfStep.req
             /\ clip.via.op = "WithSpeed" =>
                   CallOfStep.t = CallOfStep.req * clip.via.f]_vars

C26_Witness ==
    /\ vrInfo # <<>> /\ vrInfo[1].dur = 2
    /\ clip.via.op = "WithSpeed" /\ clip.via.f = 2
    /\ clip.dur = 1
    /\ gpc = "read" /\ gcall.kind = "video"
    /\ gcall.req = 1 /\ gcall.t = 2

\* The last call to return was a Subclip whose bounds are invalid for the
\* clip it was called on.
InvalidSubclipReturned ==
    /\ lcRet.op = "Subclip"
    /\ \/ lcRet.args[1] < 0
       \/ lcRet.args[2] > lcRet.args[3]
       \/ lcRet.args[1] >= lcRet.args[2]

Serves(j, t) == <<VfcGetFrameResult(j, t), VfcGetAudioFrameResult(j, t)>>

\* C28: when a clip made by Subclip, WithSpeed or WithVolume is closed, every
\* other clip that is live, the clip it was made from included, answers
\* GetFrame and GetAudioFrame after the Close as it did before.
C28_CloseOfDerivedLeavesOthers ==
    [][\A i \in ClipIds \ {1} :
          (~vfc[i].closed /\ vfc'[i].closed) =>
              \A j \in ClipIds \ {i} :
                  (vfc[j].made /\ ~vfc[j].closed) =>
                      \A t \in Times : Serves(j, t)' = Serves(j, t)]_vars

\* C29: a call on a closed clip other than Close returns an error, makes no
\* clip and spawns no process; Close on a closed clip returns nil and changes
\* nothing.
C29_ClosedClipRefusesEverything ==
    lcRet.wasClosed =>
        IF lcRet.op = "Close"
        THEN lcRet.err = "nil" /\ ~lcRet.changed
        ELSE lcRet.err # "nil" /\ ~lcRet.made /\ ~lcRet.spawned

\* C30: once the context of a running process started by StartProcess has
\* been cancelled, as ManagedProcess.Terminate does, the process eventually
\* has stopped, the value has been sent on done and the entry is out of the
\* registry.
C30_TerminateStopsProcess ==
    \A p \in Pids :
        (kind[p] = "managed" /\ mpCancelled[p] /\ os[p] = "running") ~>
            (/\ os[p] # "running"
             /\ mon[p] \in {"cleanup", "finished"}
             /\ p \notin processes)

\* C31: applying an effect changes nothing of the effect itself: once an
\* effect is made, no step changes its parameters, so the size it produces
\* for a given input size is the same before and after every application,
\* the one on the blank probe frame of the dimension inference included.
C31_ApplyToFrameIsPure ==
    [][\A e \in FxIds :
          fx[e] # NoEffect =>
              /\ fx'[e] = fx[e]
              /\ \A w \in FxDims, h \in FxDims :
                    ApplyToFrame(fx'[e], <<w, h>>).size
                        = ApplyToFrame(fx[e], <<w, h>>).size]_vars

\* The step in which a chain holding one crop effect returns from
\* ApplyToFrame.
CropCallStep ==
    /\ ecEffects = <<1>>
    /\ fx[1].type = "crop"
    /\ ecGot' # ecGot

\* C32: for every crop rectangle (x, y, w, h) and every source size,
\* CropEffect.ApplyToFrame returns a frame of non-negative width and height
\* no larger than (w, h), whose source region, from the corner the effect
\* copies from, lies inside the source frame, also when x or y is at or
\* beyond the right or bottom edge.
C32_CropStaysInsideSource ==
    [][CropCallStep =>
          LET rect == fx[1]
              corner == <<fx'[1].x, fx'[1].y>>
              src == ecGot'.from
              out == ecGot'.size
          IN  /\ ecGot'.ok
              /\ out[1] >= 0 /\ out[2] >= 0
              /\ out[1] <= rect.width /\ out[2] <= rect.height
              /\ corner[1] >= 0 /\ corner[1] + out[1] <= src[1]
              /\ corner[2] >= 0 /\ corner[2] + out[2] <= src[2]]_vars

\* The canvas pixels under layer k as its position places it on a canvas of
\* the base layer's size.
Footprint(k) ==
    LET pos == cvPositions[k]
        w == cvClips[k].w * pos.Scale
        h == cvClips[k].h * pos.Scale
        ox == IF pos.Center THEN Quot(cvClips[1].w - w, 2) ELSE pos.X
        oy == IF pos.Center THEN Quot(cvClips[1].h - h, 2) ELSE pos.Y
    IN  {p \in Pixels(cvClips[1].w, cvClips[1].h) :
            /\ p[1] - ox >= 0 /\ p[1] - ox < w
            /\ p[2] - oy >= 0 /\ p[2] - oy < h}

\* C33: the frame GetFrame returns has exactly the bounds of the base
\* layer's frame, wherever the layers are placed and whatever their scale:
\* it has a pixel at every place of the base frame and at no other, and a
\* place no layer covers keeps the base frame's pixel.
C33_FrameKeepsBaseBounds ==
    cvGot.ok =>
        /\ cvGot.frame.w = cvClips[1].w
        /\ cvGot.frame.h = cvClips[1].h
        /\ DOMAIN cvGot.frame.px = Pixels(cvClips[1].w, cvClips[1].h)
        /\ \A p \in Pixels(cvClips[1].w, cvClips[1].h) :
              (\A k \in 2..Len(cvClips) : p \notin Footprint(k)) =>
                  cvGot.frame.px[p] = LayerFrame(1).px[p]

\* A layer twice the base's width put one pixel to the left of the canvas:
\* part of it is cut off on either side and the rest is drawn.
C33_Witness ==
    /\ cvGot.ok
    /\ Len(cvClips) = 2
    /\ cvGot.broken = {}
    /\ cvGot.t <= cvClips[2].dur
    /\ ~cvPositions[2].Center
    /\ cvPositions[2].X < 0
    /\ cvPositions[2].X + cvClips[2].w * cvPositions[2].Scale > cvClips[1].w
    /\ cvPositions[2].Y > 0
    /\ cvGot.frame # LayerFrame(1)
    /\ Footprint(2) # {}
    /\ Footprint(2) # Pixels(cvClips[1].w, cvClips[1].h)

\* The whole part of a * b / 65535, for a below 2^17 and b below 2^16,
\* without a limit on the size of the product.
ExactMulDiv(a, b) ==
    LET u == (a \div 256) * b
        v == (a % 256) * b
        top == u + v \div 256
    IN  top \div 256 + (top \div 256 + (top % 256) * 256 + (v % 256)) \div 65535

\* The blend of one channel as the blend modes are defined.
Blend34(base, top, mode) ==
    CASE mode = "Add" -> IF base + top < 65535 THEN base + top ELSE 65535
      [] mode = "Multiply" -> ExactMulDiv(base, top)
      [] mode = "Screen" -> 65535 - ExactMulDiv(65535 - base, 65535 - top)
      [] mode = "Darken" -> IF base < top THEN base ELSE top
      [] mode = "Lighten" -> IF base > top THEN base ELSE top
      [] mode = "Overlay" ->
            IF 2 * base < 65535
            THEN ExactMulDiv(2 * base, top)
            ELSE 65535 - ExactMulDiv(2 * (65535 - base), 65535 - top)

\* C34: for every base and overlay channel value in 0..65535 and every blend
\* mode, blendColors yields channels in 0..65535 that are the mode's formula
\* of the two values, no product in between exceeds 32 unsigned bits, and
\* the alpha of the result is the overlay's alpha.
C34_BlendStaysInRange ==
    blCall # NoBlend =>
        /\ ~blCall.wide
        /\ \A i \in 1..3 :
              /\ blCall.out[i] \in 0..65535
              /\ blCall.out[i] = Blend34(blCall.base[i], blCall.overlay[i],
                                         blCall.mode)
        /\ blCall.out[4] = blCall.overlay[4]

\* Two full-scale channels added: the sum is above the scale and the result
\* is full scale.
C34_Witness ==
    /\ blCall.mode = "Add"
    /\ blCall.base[1] = 65535
    /\ blCall.overlay[1] = 65534
    /\ blCall.out[1] = 65535
    /\ blCall.overlay[4] = 32768
    /\ blCall.base[4] = 65535
    /\ blCall.out[4] = 32768

\* C35: once a process has exited and its monitoring goroutine has sent the
\* exit result, every observer finds it: the value is there to be received,
\* so that IsRunning returns false and Wait returns, however many receives
\* (IsRunning, Wait, TerminateProcess, WriteFrame, the reaper) came before.
C35_CompletionStaysObservable ==
    \A p \in Pids :
        (kind[p] # "none" /\ mon[p] \in {"delete", "cleanup", "finished"})
            => done[p] = 1

\* The source time a clip made by the two calls of chain should ask for at
\* its own time t.
ComposedTime(chain, t) ==
    LET one == chain[1]
        two == chain[2]
    IN  CASE one.op = "Subclip" /\ two.op = "Subclip" -> one.a + two.a + t
          [] one.op = "WithSpeed" /\ two.op = "Subclip" -> (two.a + t) * one.f
          [] one.op = "WithSpeed" /\ two.op = "WithSpeed" -> t * one.f * two.f
          [] OTHER -> (one.a + t) * two.f

\* C36: the mapping from a clip's own time to source time composes over two
\* calls on a source clip c: c.Subclip(a, b).Subclip(p, q).GetFrame(t) asks
\* the reader for a + p + t, c.WithSpeed(f).Subclip(a, b).GetFrame(t) for
\* (a + t) * f, and c.WithSpeed(f).WithSpeed(g).GetFrame(t) for t * f * g;
\* for t within the clip's duration the time asked for lies inside the window
\* of a parent made by Subclip.
C36_TimeMappingComposes ==
    [][(VideoCallStep /\ Len(clip.chain) = 2
            /\ ~(clip.chain[1].op = "Subclip" /\ clip.chain[2].op = "WithSpeed"))
          => /\ CallOfStep.t = ComposedTime(clip.chain, CallOfStep.req)
             /\ (/\ clip.chain[1].op = "Subclip"
                 /\ CallOfStep.req >= 0
                 /\ CallOfStep.req <= clip.dur)
                    => /\ CallOfStep.t >= clip.chain[1].a
                       /\ CallOfStep.t <= clip.chain[1].b]_vars

\* C37: TerminateProcess sends neither SIGTERM nor SIGKILL to the process
\* group of a pid whose process its monitoring goroutine has already reaped,
\* however its steps interleave with the process's exit, with another
\* TerminateProcess on the same pid and with the reaper pass.
C37_NoSignalAfterReap ==
    [][\A t \in Callers :
          (tpc[t] \in {"kill", "forcekill"} /\ tpc'[t] # tpc[t])
              => os[tpid[t]] # "reaped"]_vars

\* C38: a writer never holds more than one live encoder process, and when
\* Close has returned every encoder that Open started has been awaited (it
\* has exited and its exit status has been collected).
LiveEncoders == {p \in AllPids : kind[p] = "video" /\ os[p] = "running"}

C38_WriterOwnsOneEncoder ==
    /\ Cardinality(LiveEncoders) <= 1
    /\ (vwClosed /\ vwpc = "idle") =>
           \A p \in AllPids : kind[p] = "video" => os[p] = "reaped"

\* C39: a call of GetAudioFrame or WriteToFile on an AudioFileClip that
\* Subclip, WithSpeed or WithVolume made from an opened clip does not fail
\* with the not-opened error.
C39_DerivedClipServesFrames ==
    (/\ auRet.op \in {"GetAudioFrame", "WriteToFile"}
     /\ audioClips[auRet.clip].fromOpen)
        => auRet.err # "notOpen"

\* C40: AudioFileClip.WithSpeed(f) with f > 0 on a clip that is not closed
\* makes a clip whose Duration() is the receiver's divided by f, and with
\* f <= 0 it returns the invalid-speed error and no clip.
C40_SpeedDividesDuration ==
    (auRet.op = "WithSpeed" /\ auRet.err # "closed") =>
        IF auRet.factor > 0
        THEN /\ auRet.err = "nil"
             /\ auRet.made # 0
             /\ audioClips[auRet.made].dur = Slowed(auRet.before, auRet.factor)
        ELSE auRet.err = "speed" /\ auRet.made = 0

====
